---- MODULE Spec2Model ----
(***************************************************************************)
(* State-machine model of termtosvg (and of its ancestor vectty): the time *)
(* coalescer, the line-event generators, the cursor overlay and the SVG    *)
(* definition table / SMIL chaining of the compositor.                     *)
(*                                                                         *)
(* All times are integers in milliseconds.  The source keeps event times   *)
(* in seconds and converts with `* 1000`; the model works in the converted *)
(* unit throughout.                                                        *)
(***************************************************************************)
EXTENDS Integers, Sequences, FiniteSets, TLC

(***************************************************************************)
(* Bounds of the model.                                                    *)
(***************************************************************************)
MaxEvents == 3    \* number of asciicast event records fed to the coalescer
MaxTime == 3      \* largest event time (ms)
MaxParam == 2     \* largest value of min/max/last record duration (ms)
MaxFrames == 2    \* number of frames a line-event generator processes
MaxDur == 2       \* largest duration of a frame (ms)
MaxTouched == 2   \* rows one chunk writes on
MaxRenders == 2   \* calls of render_animation on one object
MaxGeometry == 2  \* largest number of columns or rows of a geometry
MaxBinds == 2     \* renders chained through their output
MaxLines == 3     \* lines of a cast file
MaxTimed == 3     \* frames handed to _render_animation
MaxChunks == 2    \* chunks the recorded process writes to the PTY
MaxWinsize == 2   \* largest number of lines and of columns of the terminal
MaxColumn == 2    \* last column of the lines whose background is rendered
MaxStdout == 3    \* entries of the stdout of an asciicast v1 recording
MaxDelta == 2     \* largest delay of a v1 entry

\* `max_rec_duration` is None (or 0): `if max_rec_duration:` is false.
NoMax == 0

VARIABLES
    \* ---- term._group_by_time -------------------------------------------
    min_rec_duration,    \* parameter m (ms)
    max_rec_duration,    \* parameter M (ms), NoMax when not set
    last_rec_duration,   \* parameter L (ms)
    event_records,       \* the input records consumed so far
    current_string,      \* data accumulated for the frame being built
    current_time,        \* start time of the frame being built
    dropped_time,        \* total idle time removed so far
    grouped,             \* the records yielded so far
    gpc,                 \* "run" while iterating, "done" after the last yield
    \* ---- the pyte screen ------------------------------------------------
    screen_buffer,       \* screen.buffer: row -> column -> Char
    screen_dirty,        \* screen.dirty: rows changed since the last clear()
    screen_cursor,       \* screen.cursor
    \* ---- term.screen_events ---------------------------------------------
    last_cursor,         \* cursor returned by the previous _redraw_buffer
    display_events,      \* lines on screen whose duration is not known yet
    time,                \* clock of screen_events (ms)
    events,              \* the group of events yielded by the last step
    spc,                 \* "run" in the loop over frames, "done" at the end
    nframes,             \* frames processed so far
    \* ---- vectty term.replay ---------------------------------------------
    pending_lines,       \* row -> (line, time, duration) still on screen
    replay_time,         \* replay's current_time (ms)
    records_out,         \* the line events yielded so far
    rpc,                 \* "run" in the loop over frames, "done" at the end
    \* ---- vectty AsciiAnimation.render_animation --------------------------
    defs,                \* self.defs: text group string -> group id
    dwg_defs,            \* ids of the groups added to dwg.defs
    dwg_uses,            \* ids referenced by the <use> elements of dwg
    animations,          \* the <animate> elements of dwg, in emission order
    row_animations,      \* row -> (animation id, end) of its last animation
    render_pos,          \* position of the next record to group
    renders,             \* calls of render_animation on the object so far
    vpc,                 \* "new", "render", "saved" or "error"
    \* ---- termtosvg anim._render_animation --------------------------------
    definitions,         \* text group string -> id of its definition
    line_ids,            \* (line, text group string, id) per rendered line
    tree_defs,           \* ids of the definitions appended to <defs>
    frame_count,         \* frames rendered so far
    kpc,                 \* "run" in the loop over frames, "done" at the end
    \* ---- termtosvg anim: template binder and render operations ----------
    template,            \* the template document handed to the render
    original,            \* the template the first render started from
    geometry,            \* (columns, rows) of the last render, <<>> at first
    bstatus,             \* "ok" or the name of the exception raised
    bpc,                 \* "start", "prepared", "done" or "failed"
    still,               \* TRUE for render_still_frames
    assembled,           \* frames assembled in memory by the render
    written,             \* files written by the render
    binds,               \* renders started so far
    \* ---- termtosvg anim.CharacterCell.from_pyte --------------------------
    pyte_char,           \* the pyte character handed to from_pyte
    char_cell,           \* the CharacterCell returned
    cpc,                 \* "char" before the call, then "cell" or "error"
    \* ---- asciicast.read_records into term.screen_events ------------------
    cast_file,           \* the lines of the cast file
    first_record,        \* the first record the reader has yielded
    hstatus,             \* "ok" or the name of the exception raised
    hpc,                 \* "open", "record", "configured" or "failed"
    produced,            \* items yielded by screen_events so far
    \* ---- term.screen_events: groups handed to the consumer ---------------
    yielded,             \* the groups yielded by the last step
    \* ---- term._feed and the loop body of vectty replay, on one frame ----
    feed_redraw,         \* the dirty-row map of the frame
    feed_de,             \* display_events handed to _feed
    feed_clock,          \* the clock of the frame (ms)
    feed_dur,            \* the duration of the frame (ms)
    feed_de_out,         \* display_events returned by _feed
    feed_pending_out,    \* pending_lines of replay after the frame
    feed_events,         \* the events of the frame
    epc,                 \* position of the frame step
    \* ---- asciicast: to_json_line and from_json_line ----
    json_in,             \* the record, or the line, the conversions start from
    json_mid,            \* the result of the first conversion
    json_out,            \* the result of the conversion back
    jpc,                 \* position of the conversion
    \* ---- asciicast._read_v1_records ----
    v1_data,             \* the asciicast v1 recording: width, height, stdout
    v1_records,          \* the records yielded so far
    v1_time,             \* time of _read_v1_records
    wpc,                 \* position of the v1 reader
    \* ---- term.TerminalMode ----
    tm_fd,               \* what fileno refers to: "tty" or "pipe"
    term_mode,           \* the mode of the terminal (termios attributes)
    term_size,           \* the window size of the terminal (struct winsize)
    tm_self,             \* the fields mode and ttysize of the TerminalMode instance
    tm_entry,            \* the mode and window size when the block was entered
    mpc,                 \* position in the with block
    \* ---- anim._render_animation: timings ----
    tf_frames,           \* frames of _render_animation: time and duration of each
    tf_height,           \* screen_height of _render_animation
    tf_type,             \* the animation type of the template: "css" or "waapi"
    timings,             \* timings of _render_animation: time -> offset
    animation_duration,  \* animation_duration of _render_animation
    keyframes,           \* the transforms listed by _embed_css or _embed_waapi
    tf_status,           \* how _add_animation ended
    tf_count,            \* frame_count of _render_animation
    ipc,                 \* position of the render
    \* ---- anim.ConsecutiveWithSameAttributes ----
    bg_line,             \* screen_line of _render_line_bg_colors: column -> cell
    key_state,           \* the fields of the ConsecutiveWithSameAttributes instance
    bg_keys,             \* the keys returned for the cells seen so far
    rect_tags,           \* the rect tags returned
    npc,                 \* position of the grouping
    \* ---- term._capture_output ----
    proc_written,        \* number of chunks the recorded process has written
    proc_state,          \* the recorded process: "running" or "exited"
    pty_out,             \* the chunks written to the PTY and not read from master_fd yet
    stdin_state,         \* input_fileno: "open", "data", "eof" or "error"
    cap_rfds,            \* the descriptors of rfds the for loop has not visited yet
    cap_xfds,            \* xfds of _capture_output
    cap_data,            \* data of _capture_output between the yield and the write
    cap_yielded,         \* the chunks yielded to the caller
    cap_output,          \* the chunks written to output_fileno
    ppc,                 \* position of the recorder
    \* ---- observers of the emitted event stream --------------------------
    displayed,           \* row -> line most recently redrawn for the row
    shown_times,         \* row -> ms slots in which the row had content
    closed_times,        \* row -> ms slots covered by closed events
    overlapping,         \* TRUE once two closed events of a row overlap
    unclosed,            \* appearance events not yet followed by a closure
    orphan_closed,       \* TRUE once a closure matches no appearance
    total_duration       \* sum of the durations of the frames processed

gvars == <<min_rec_duration, max_rec_duration, last_rec_duration,
           event_records, current_string, current_time, dropped_time,
           grouped, gpc>>

svars == <<screen_buffer, screen_dirty, screen_cursor>>

tvars == <<last_cursor, display_events, time, events, spc, nframes>>

rvars == <<pending_lines, replay_time, records_out, rpc>>

ovars == <<displayed, shown_times, closed_times, overlapping, unclosed,
           orphan_closed, total_duration>>

avars == <<defs, dwg_defs, dwg_uses, animations, row_animations, render_pos,
           renders, vpc>>

dvars == <<definitions, line_ids, tree_defs, frame_count, kpc>>

bvars == <<template, original, geometry, bstatus, bpc, still, assembled,
           written, binds>>

cvars == <<pyte_char, char_cell, cpc>>

hvars == <<cast_file, first_record, hstatus, hpc, produced>>

\* the variables of the components above
corevars == <<gvars, svars, tvars, rvars, ovars, avars, dvars, bvars, cvars,
              hvars, yielded>>

evars == <<feed_redraw,
           feed_de,
           feed_clock,
           feed_dur,
           feed_de_out,
           feed_pending_out,
           feed_events,
           epc>>

jvars == <<json_in, json_mid, json_out, jpc>>

wvars == <<v1_data, v1_records, v1_time, wpc>>

mvars == <<tm_fd, term_mode, term_size, tm_self, tm_entry, mpc>>

ivars == <<tf_frames,
           tf_height,
           tf_type,
           timings,
           animation_duration,
           keyframes,
           tf_status,
           tf_count,
           ipc>>

nvars == <<bg_line, key_state, bg_keys, rect_tags, npc>>

pvars == <<proc_written,
           proc_state,
           pty_out,
           stdin_state,
           cap_rfds,
           cap_xfds,
           cap_data,
           cap_yielded,
           cap_output,
           ppc>>

zvars == <<evars, jvars, wvars, mvars, ivars, nvars, pvars>>

vars == <<corevars, zvars>>

\* DisplayLine.__new__.__defaults__ = (None,): a duration that is not set.
None == -1

(***************************************************************************)
(* The pyte screen, as far as the recorder observes it                     *)
(***************************************************************************)
Rows == {0, 1}        \* header.height = 2
Columns == {0, 1}     \* header.width = 2

\* pyte.screens.Char(data, fg, bg, bold, reverse)
Char(data, fg, bg, bold, reverse) ==
    [data |-> data, fg |-> fg, bg |-> bg, bold |-> bold, reverse |-> reverse]

\* The characters the recorded program writes: plain text in default colours.
ScreenChars == { Char("a", "default", "default", FALSE, FALSE) }

\* A row of screen.buffer maps the columns written so far to Chars; the
\* recorded program writes in the first column only.
ScreenLines == UNION { [cols -> ScreenChars] : cols \in {{}, {0}} }

\* pyte.screens.Cursor(x, y, attrs, hidden), compared field by field.
Cursor(x, y, hidden) ==
    [x |-> x, y |-> y, hidden |-> hidden,
     attrs |-> Char(" ", "default", "default", FALSE, FALSE)]

Cursors == { Cursor(x, y, h) : x \in Columns, y \in Rows, h \in BOOLEAN }

\* last_cursor = None
NoCursor == [none |-> TRUE]

\* What stream.feed(chunk) can do to the screen: it writes on at most
\* MaxTouched rows, each becoming dirty whether or not its content changes,
\* and leaves the cursor anywhere, shown or hidden.
FeedOutcomes(buffer, dirty) ==
    { [buffer |-> [r \in Rows |-> IF r \in DOMAIN w THEN w[r] ELSE buffer[r]],
       dirty |-> dirty \cup DOMAIN w,
       cursor |-> c] :
        w \in UNION { [T -> ScreenLines] :
                        T \in { S \in SUBSET Rows :
                                  Cardinality(S) <= MaxTouched } },
        c \in Cursors }

\* pyte.Screen(width, height): empty buffer, every row dirty, cursor at the
\* origin and visible.
ScreenInit ==
    /\ screen_buffer = [r \in Rows |-> <<>>]
    /\ screen_dirty = Rows
    /\ screen_cursor = Cursor(0, 0, FALSE)

\* The rows of a set in increasing order.
RECURSIVE SortedRows(_)
SortedRows(S) ==
    IF S = {} THEN <<>>
    ELSE LET least == CHOOSE r \in S : \A q \in S : r <= q
         IN <<least>> \o SortedRows(S \ {least})

\* The coalescer's variables while another component is studied alone.
GroupIdle ==
    /\ min_rec_duration = 1
    /\ max_rec_duration = NoMax
    /\ last_rec_duration = 1
    /\ event_records = <<>>
    /\ current_string = <<>>
    /\ current_time = 0
    /\ dropped_time = 0
    /\ grouped = <<>>
    /\ gpc = "idle"

\* The variables of screen_events while another component is studied.
ScreenEventsIdle ==
    /\ last_cursor = NoCursor
    /\ display_events = <<>>
    /\ time = 0
    /\ events = <<>>
    /\ yielded = <<>>
    /\ spc = "idle"
    /\ nframes = 0

\* The variables of replay while another component is studied.
ReplayIdle ==
    /\ pending_lines = <<>>
    /\ replay_time = 0
    /\ records_out = <<>>
    /\ rpc = "idle"

\* The variables of vectty's render_animation while it is not studied.
AnimationIdle ==
    /\ defs = <<>>
    /\ dwg_defs = {}
    /\ dwg_uses = <<>>
    /\ animations = <<>>
    /\ row_animations = <<>>
    /\ render_pos = 1
    /\ renders = 0
    /\ vpc = "idle"

\* The variables of termtosvg's _render_animation while it is not studied.
DefinitionsIdle ==
    /\ definitions = <<>>
    /\ line_ids = <<>>
    /\ tree_defs = {}
    /\ frame_count = 0
    /\ kpc = "idle"

\* The variables of the template binder while it is not studied.
BinderIdle ==
    /\ template = <<>>
    /\ original = <<>>
    /\ geometry = <<>>
    /\ bstatus = "ok"
    /\ bpc = "idle"
    /\ still = FALSE
    /\ assembled = 0
    /\ written = 0
    /\ binds = 0

(***************************************************************************)
(* termtosvg/anim.py : CharacterCell.from_pyte                             *)
(***************************************************************************)
\* anim.py: _COLORS + _BRIGHTCOLORS
NAMED_COLORS ==
    <<"black", "red", "green", "brown", "blue", "magenta", "cyan", "white",
      "brightblack", "brightred", "brightgreen", "brightbrown", "brightblue",
      "brightmagenta", "brightcyan", "brightwhite">>

\* 'color{}'.format(index), index = 0..15
COLOR_CLASSES ==
    <<"color0", "color1", "color2", "color3", "color4", "color5", "color6",
      "color7", "color8", "color9", "color10", "color11", "color12",
      "color13", "color14", "color15">>

\* NAMED_COLORS.index(name) + 1
NamedIndex(name) == CHOOSE k \in 1..Len(NAMED_COLORS) : NAMED_COLORS[k] = name

\* str(name).startswith('bright')
StartsWithBright(name) ==
    \E k \in 1..Len(NAMED_COLORS) : k > 8 /\ NAMED_COLORS[k] = name

CharacterCell(text, color, background_color, bold) ==
    [text |-> text, color |-> color, background_color |-> background_color,
     bold |-> bold]

\* Python's int(text, 16) ----------------------------------------------
HEX_DIGITS ==
    {"0", "1", "2", "3", "4", "5", "6", "7", "8", "9",
     "a", "b", "c", "d", "e", "f", "A", "B", "C", "D", "E", "F"}

CharAt(text, i) == SubSeq(text, i, i)

\* text.strip()
RECURSIVE Strip(_)
Strip(text) ==
    IF Len(text) > 0 /\ CharAt(text, 1) = " "
    THEN Strip(SubSeq(text, 2, Len(text)))
    ELSE IF Len(text) > 0 /\ CharAt(text, Len(text)) = " "
    THEN Strip(SubSeq(text, 1, Len(text) - 1))
    ELSE text

\* the literal without its sign
Unsigned(text) ==
    IF Len(text) > 0 /\ CharAt(text, 1) \in {"+", "-"}
    THEN SubSeq(text, 2, Len(text)) ELSE text

HasPrefix(text) == Len(text) >= 2 /\ SubSeq(text, 1, 2) \in {"0x", "0X"}

\* the literal without the prefix base 16 allows
Unprefixed(text) ==
    IF HasPrefix(text) THEN SubSeq(text, 3, Len(text)) ELSE text

\* digits of base 16, single underscores allowed between them and after
\* the prefix
DigitsBase16(text, prefixed) ==
    /\ Len(text) > 0
    /\ \A i \in 1..Len(text) :
          \/ CharAt(text, i) \in HEX_DIGITS
          \/ /\ CharAt(text, i) = "_"
             /\ i > 1 \/ prefixed
             /\ i < Len(text)
             /\ CharAt(text, i + 1) # "_"

\* int(text, 16) returns a number (it raises ValueError otherwise)
IntBase16Accepts(text) ==
    DigitsBase16(Unprefixed(Unsigned(Strip(text))),
                 HasPrefix(Unsigned(Strip(text))))

\* named_color: 'bright{}'.format(char.fg) for a bold cell whose colour
\* does not start with 'bright', char.fg otherwise
NamedColor(char) ==
    IF char.bold /\ ~StartsWithBright(char.fg)
    THEN "bright" \o char.fg
    ELSE char.fg

IsNamed(name) == \E k \in 1..Len(NAMED_COLORS) : NAMED_COLORS[k] = name

\* The exception raised while the foreground is resolved, "ok" if none.
TextColorStatus(char) ==
    IF char.fg = "default" THEN "ok"
    ELSE IF IsNamed(NamedColor(char)) THEN "ok"
    ELSE IF Len(char.fg) = 6
         THEN (IF IntBase16Accepts(char.fg) THEN "ok" ELSE "ValueError")
    ELSE "ValueError"

\* The exception raised while the background is resolved, "ok" if none.
BackgroundColorStatus(char) ==
    IF char.bg = "default" THEN "ok"
    ELSE IF IsNamed(char.bg) THEN "ok"
    ELSE IF Len(char.bg) = 6
         THEN (IF IntBase16Accepts(char.bg) THEN "ok" ELSE "ValueError")
    ELSE "ValueError"

\* Foreground: 'default' is 'foreground'; a bold base colour is brightened;
\* a colour that is not named is written '#{}'.format(char.fg).
TextColor(char) ==
    IF char.fg = "default" THEN "foreground"
    ELSE IF IsNamed(NamedColor(char))
         THEN COLOR_CLASSES[NamedIndex(NamedColor(char))]
    ELSE "#" \o char.fg

\* Background: 'default' is 'background'; bold does not brighten.
BackgroundColor(char) ==
    IF char.bg = "default" THEN "background"
    ELSE IF IsNamed(char.bg) THEN COLOR_CLASSES[NamedIndex(char.bg)]
    ELSE "#" \o char.bg

\* The exception raised by from_pyte, "ok" if none.
FromPyteStatus(char) ==
    IF TextColorStatus(char) # "ok" THEN TextColorStatus(char)
    ELSE BackgroundColorStatus(char)

\* The cell returned by from_pyte when it raises nothing.
FromPyte(char) ==
    IF char.reverse
    THEN CharacterCell(char.data, BackgroundColor(char), TextColor(char),
                       char.bold)
    ELSE CharacterCell(char.data, TextColor(char), BackgroundColor(char),
                       char.bold)

\* The values of the fg and bg attributes handed to from_pyte: the default,
\* names of the palette, and strings that are not names.
PYTE_COLORS ==
    {"default", "red", "blue", "brightgreen", "008700", "ABCDEF",
     "yellow", "pink", "0x1234"}

PyteChars ==
    [data : {"A"}, fg : PYTE_COLORS, bg : PYTE_COLORS, bold : BOOLEAN,
     reverse : BOOLEAN]

NoCell == [text |-> "", color |-> "", background_color |-> "", bold |-> FALSE]

FromPyteIdle ==
    /\ pyte_char = [data |-> " ", fg |-> "default", bg |-> "default",
                    bold |-> FALSE, reverse |-> FALSE]
    /\ char_cell = NoCell
    /\ cpc = "idle"

NoRecord == [type |-> "none"]

RecordsIdle ==
    /\ cast_file = <<>>
    /\ first_record = NoRecord
    /\ hstatus = "ok"
    /\ hpc = "idle"
    /\ produced = 0

\* Values of Python and of JSON: None / null, int, float, str.
JNone == [none |-> TRUE]
JInt(n) == [int |-> n]
JFloat(digits) == [float |-> digits]
JStr(text) == [str |-> text]

FeedIdle ==
    /\ feed_redraw = <<>>
    /\ feed_de = <<>>
    /\ feed_clock = 0
    /\ feed_dur = 0
    /\ feed_de_out = <<>>
    /\ feed_pending_out = <<>>
    /\ feed_events = <<>>
    /\ epc = "idle"

JsonIdle ==
    /\ json_in = JNone
    /\ json_mid = JNone
    /\ json_out = JNone
    /\ jpc = "idle"

V1Idle ==
    /\ v1_data = <<>>
    /\ v1_records = <<>>
    /\ v1_time = 0
    /\ wpc = "idle"

TerminalIdle ==
    /\ tm_fd = "pipe"
    /\ term_mode = "cooked"
    /\ term_size = <<>>
    /\ tm_self = <<>>
    /\ tm_entry = <<>>
    /\ mpc = "idle"

TimingsIdle ==
    /\ tf_frames = <<>>
    /\ tf_height = 1
    /\ tf_type = "css"
    /\ timings = <<>>
    /\ animation_duration = JNone
    /\ keyframes = <<>>
    /\ tf_status = "ok"
    /\ tf_count = 0
    /\ ipc = "idle"

RunsIdle ==
    /\ bg_line = <<>>
    /\ key_state = <<>>
    /\ bg_keys = <<>>
    /\ rect_tags = <<>>
    /\ npc = "idle"

CaptureIdle ==
    /\ proc_written = 0
    /\ proc_state = "exited"
    /\ pty_out = <<>>
    /\ stdin_state = "open"
    /\ cap_rfds = <<>>
    /\ cap_xfds = {}
    /\ cap_data = <<>>
    /\ cap_yielded = <<>>
    /\ cap_output = <<>>
    /\ ppc = "idle"

\* The components studied on their own are idle.
ZIdle ==
    /\ FeedIdle /\ JsonIdle /\ V1Idle /\ TerminalIdle /\ TimingsIdle
    /\ RunsIdle /\ CaptureIdle

(***************************************************************************)
(* termtosvg/term.py : _redraw_buffer                                      *)
(***************************************************************************)
\* screen.cursor != last_cursor
CursorChanged(cursor, last) == cursor # last

\* Mutant: the row of the former cursor is not redrawn.
RowsChanged_NoFormerRow(dirty, cursor, last) ==
    dirty
    \cup (IF cursor # last /\ ~cursor.hidden THEN {cursor.y} ELSE {})

\* rows_changed = set(screen.dirty), plus the rows of the new and of the
\* former cursor when the cursor changed (a hidden cursor adds no row).
RowsChanged(dirty, cursor, last) ==
    dirty
    \cup (IF CursorChanged(cursor, last) /\ ~cursor.hidden
          THEN {cursor.y} ELSE {})
    \cup (IF CursorChanged(cursor, last) /\ last # NoCursor /\ ~last.hidden
          THEN {last.y} ELSE {})

\* buffer[row] = {column: from_pyte(screen.buffer[row][column]) ...}
ConvertedLine(line) == [c \in DOMAIN line |-> FromPyte(line[c])]

\* pyte.screens.Char(data=data, fg=attrs.fg, bg=attrs.bg, reverse=True),
\* data being the character under the cursor, or ' ' when there is none.
CursorChar(buffer, cursor) ==
    Char(IF cursor.x \in DOMAIN buffer[cursor.y]
         THEN buffer[cursor.y][cursor.x].data ELSE " ",
         cursor.attrs.fg, cursor.attrs.bg, FALSE, TRUE)

\* if screen.cursor != last_cursor and not screen.cursor.hidden
OverlayDrawn(cursor, last) == CursorChanged(cursor, last) /\ ~cursor.hidden

\* line with buffer[row][column] = cell
WithCell(line, column, cell) ==
    [c \in DOMAIN line \cup {column} |-> IF c = column THEN cell ELSE line[c]]

\* The buffer returned by _redraw_buffer: row -> line, for the rows changed.
RedrawBuffer(buffer, dirty, cursor, last) ==
    [row \in RowsChanged(dirty, cursor, last) |->
        IF OverlayDrawn(cursor, last) /\ row = cursor.y
        THEN WithCell(ConvertedLine(buffer[row]), cursor.x,
                      FromPyte(CursorChar(buffer, cursor)))
        ELSE ConvertedLine(buffer[row])]

(***************************************************************************)
(* termtosvg/term.py : _feed                                               *)
(***************************************************************************)
DisplayLine(row, line, t, duration) ==
    [row |-> row, line |-> line, time |-> t, duration |-> duration]

\* Mutant: the duration is measured from the start of the recording.
ClosedDuration_FromStart(t, ev) == t

\* duration = time - event_without_duration.time
ClosedDuration(t, ev) == t - ev.time

\* First loop: the lines on screen whose row is redrawn, with their duration.
FeedClosures(redraw_buffer, de, t) ==
    LET old == SelectSeq(de, LAMBDA ev : ev.row \in DOMAIN redraw_buffer)
    IN [i \in 1..Len(old) |->
          DisplayLine(old[i].row, old[i].line, old[i].time,
                      ClosedDuration(t, old[i]))]

\* Mutant: no line is popped.
FeedKept_All(redraw_buffer, de) == de

\* display_events after the pops of the first loop
FeedKept(redraw_buffer, de) ==
    SelectSeq(de, LAMBDA ev : ev.row \notin DOMAIN redraw_buffer)

\* Second loop: one DisplayLine without duration per non-empty redrawn row.
FeedAppearances(redraw_buffer, t) ==
    LET rows == SortedRows({r \in DOMAIN redraw_buffer :
                               DOMAIN redraw_buffer[r] # {}})
    IN [i \in 1..Len(rows) |->
          DisplayLine(rows[i], redraw_buffer[rows[i]], t, None)]

\* Mutant: the appearances are listed before the closures.
FeedEvents_AppearancesFirst(redraw_buffer, de, t) ==
    FeedAppearances(redraw_buffer, t) \o FeedClosures(redraw_buffer, de, t)

\* events returned by _feed
FeedEvents(redraw_buffer, de, t) ==
    FeedClosures(redraw_buffer, de, t) \o FeedAppearances(redraw_buffer, t)

\* display_events returned by _feed
FeedDisplayEvents(redraw_buffer, de, t) ==
    FeedKept(redraw_buffer, de) \o FeedAppearances(redraw_buffer, t)

(***************************************************************************)
(* Observers: what the consumer of the event stream has seen so far        *)
(***************************************************************************)
IsClosed(ev) == ev.duration # None

\* The ms slots [time, time + duration) of a closed event.
Slots(ev) == ev.time..(ev.time + ev.duration - 1)

ObserversInit ==
    /\ displayed = [r \in Rows |-> <<>>]
    /\ shown_times = [r \in Rows |-> {}]
    /\ closed_times = [r \in Rows |-> {}]
    /\ overlapping = FALSE
    /\ unclosed = {}
    /\ orphan_closed = FALSE
    /\ total_duration = 0

\* The content of every row after a frame whose dirty-row map is rb.
DisplayedAfter(rb) ==
    [r \in Rows |-> IF r \in DOMAIN rb THEN rb[r] ELSE displayed[r]]

\* Appearance events still waiting for their closure, after the group evs.
RECURSIVE UnclosedAfter(_, _)
UnclosedAfter(evs, open) ==
    IF evs = <<>> THEN open
    ELSE LET ev == Head(evs)
             key == [row |-> ev.row, line |-> ev.line, time |-> ev.time]
         IN UnclosedAfter(Tail(evs),
                IF IsClosed(ev) THEN open \ {key} ELSE open \cup {key})

\* Some closure of the group evs matches no waiting appearance.
RECURSIVE OrphanIn(_, _)
OrphanIn(evs, open) ==
    IF evs = <<>> THEN FALSE
    ELSE LET ev == Head(evs)
             key == [row |-> ev.row, line |-> ev.line, time |-> ev.time]
         IN \/ IsClosed(ev) /\ key \notin open
            \/ OrphanIn(Tail(evs),
                  IF IsClosed(ev) THEN open \ {key} ELSE open \cup {key})

\* Two closed events of one row overlap: within the group, or with an
\* earlier closed event of the row.
OverlapIn(evs) ==
    \E i \in 1..Len(evs) :
       /\ IsClosed(evs[i])
       /\ \/ Slots(evs[i]) \cap closed_times[evs[i].row] # {}
          \/ \E j \in 1..Len(evs) :
                /\ j # i
                /\ IsClosed(evs[j])
                /\ evs[j].row = evs[i].row
                /\ Slots(evs[i]) \cap Slots(evs[j]) # {}

ClosedTimesAfter(evs) ==
    [r \in Rows |->
        closed_times[r] \cup
        UNION { Slots(evs[i]) :
                  i \in { k \in 1..Len(evs) :
                            IsClosed(evs[k]) /\ evs[k].row = r } }]

\* The observers of closed events after the events evs were yielded.
ObserveClosed(evs) ==
    /\ closed_times' = ClosedTimesAfter(evs)
    /\ overlapping' = (overlapping \/ OverlapIn(evs))

\* The observers of appearance events after the group evs was yielded.
ObserveAppearances(evs) ==
    /\ unclosed' = UnclosedAfter(evs, unclosed)
    /\ orphan_closed' = (orphan_closed \/ OrphanIn(evs, unclosed))

\* The screen observers after a frame of duration d starting at clock t.
ObserveFrame(rb, t, d) ==
    /\ displayed' = DisplayedAfter(rb)
    /\ shown_times' =
          [r \in Rows |->
              shown_times[r] \cup
              (IF DOMAIN displayed'[r] # {} THEN t..(t + d - 1) ELSE {})]
    /\ total_duration' = total_duration + d

(***************************************************************************)
(* termtosvg/term.py : screen_events                                       *)
(***************************************************************************)
\* Mutant: the group is yielded whatever it holds.
Yielded_Always(group) == <<group>>

\* `if events: yield events`: the groups a step hands to the consumer.
Yielded(group) == IF group # <<>> THEN <<group>> ELSE <<>>

ScreenEventsInit ==
    /\ last_cursor = NoCursor
    /\ display_events = <<>>
    /\ time = 0
    /\ events = <<>>
    /\ yielded = <<>>
    /\ spc = "run"
    /\ nframes = 0

\* One iteration of `for record_ in timed_records`: the chunk is fed to the
\* screen, the rows to redraw are computed, _feed turns them into events,
\* the dirty set is cleared and the clock advances by the frame's duration.
ScreenFrame ==
    /\ spc = "run"
    /\ nframes < MaxFrames
    /\ \E o \in FeedOutcomes(screen_buffer, screen_dirty), d \in 1..MaxDur :
       \E rb \in {RedrawBuffer(o.buffer, o.dirty, o.cursor, last_cursor)} :
       \E evs \in {FeedEvents(rb, display_events, time)} :
            /\ screen_buffer' = o.buffer
            /\ screen_cursor' = o.cursor
            /\ screen_dirty' = {}
            /\ last_cursor' = o.cursor
            /\ display_events' = FeedDisplayEvents(rb, display_events, time)
            /\ events' = evs
            /\ yielded' = Yielded(evs)
            /\ time' = time + d
            /\ ObserveClosed(evs)
            /\ ObserveAppearances(evs)
            /\ ObserveFrame(rb, time, d)
    /\ nframes' = nframes + 1
    /\ spc' = "run"
    /\ UNCHANGED <<zvars, gvars, rvars, avars, dvars, bvars, cvars, hvars>>

\* Mutant: the final group misses the line inserted first.
FinalEvents_SkipFirst(de, t) ==
    [i \in 1..(Len(de) - 1) |->
        [row |-> de[i + 1].row, line |-> de[i + 1].line,
         time |-> de[i + 1].time, duration |-> t - de[i + 1].time]]

\* duration = time - event_without_duration.time, for the final group
FinalEvents(de, t) ==
    [i \in 1..Len(de) |->
        DisplayLine(de[i].row, de[i].line, de[i].time,
                    ClosedDuration(t, de[i]))]

\* The records are exhausted (the coalescer always yields a last frame, so
\* at least one frame was processed): every line still on screen is closed.
ScreenEnd ==
    /\ spc = "run"
    /\ nframes >= 1
    /\ events' = FinalEvents(display_events, time)
    /\ yielded' = Yielded(FinalEvents(display_events, time))
    /\ display_events' = <<>>
    /\ ObserveClosed(FinalEvents(display_events, time))
    /\ ObserveAppearances(FinalEvents(display_events, time))
    /\ spc' = "done"
    /\ UNCHANGED <<zvars, avars, dvars, bvars, cvars, hvars>>
    /\ UNCHANGED <<gvars, svars, rvars, last_cursor, time, nframes, displayed,
                   shown_times, total_duration>>

ScreenEventsNext == ScreenFrame \/ ScreenEnd

\* screen_events on a fresh screen; the coalescer is not part of this run.
ScreenEventsStart ==
    /\ ScreenInit /\ ScreenEventsInit /\ ObserversInit
    /\ GroupIdle /\ ReplayIdle /\ AnimationIdle /\ DefinitionsIdle
    /\ BinderIdle /\ FromPyteIdle /\ RecordsIdle /\ ZIdle

SpecScreenEvents == ScreenEventsStart /\ [][ScreenEventsNext]_vars

(***************************************************************************)
(* vectty/anim.py : AsciiChar.from_pyte, the conversion handed to replay   *)
(***************************************************************************)
AsciiChar(value, text_color, background_color) ==
    [value |-> value, text_color |-> text_color,
     background_color |-> background_color]

\* char.fg in colors (the eight base names)
IsBaseColor(name) ==
    \E k \in 1..Len(NAMED_COLORS) : k <= 8 /\ NAMED_COLORS[k] = name

AsciiTextColor(char) ==
    IF char.fg = "default" THEN "foreground"
    ELSE IF IsBaseColor(char.fg)
         THEN (IF char.bold THEN COLOR_CLASSES[NamedIndex(char.fg) + 8]
               ELSE COLOR_CLASSES[NamedIndex(char.fg)])
         ELSE char.fg

AsciiBackgroundColor(char) ==
    IF char.bg = "default" THEN "background"
    ELSE IF IsBaseColor(char.bg) THEN COLOR_CLASSES[NamedIndex(char.bg)]
         ELSE char.bg

AsciiFromPyte(char) ==
    IF char.reverse
    THEN AsciiChar(char.data, AsciiBackgroundColor(char), AsciiTextColor(char))
    ELSE AsciiChar(char.data, AsciiTextColor(char), AsciiBackgroundColor(char))

(***************************************************************************)
(* vectty/term.py : replay                                                 *)
(***************************************************************************)
CharacterCellLineEvent(row, line, t, duration) ==
    [row |-> row, line |-> line, time |-> t, duration |-> duration]

\* ascii_buffer[row][column] = from_pyte_char(...) for the rows of
\* screen.dirty
AsciiBuffer(buffer, dirty) ==
    [row \in dirty |-> [c \in DOMAIN buffer[row] |-> AsciiFromPyte(buffer[row][c])]]

\* done_lines[row] = line, line_time, line_duration for the pending rows
\* that are redrawn
DoneLines(pending, ascii_buffer) ==
    [row \in DOMAIN pending \cap DOMAIN ascii_buffer |-> pending[row]]

\* Mutant: a pending row that is not redrawn keeps its duration.
ExtendedDuration_Kept(entry, duration) == entry.duration

\* line_duration + duration, for a pending row that is not redrawn
ExtendedDuration(entry, duration) == entry.duration + duration

\* pending_lines after both loops over the frame: rows not redrawn last
\* longer, redrawn rows hold their new line or are removed when it is empty.
PendingAfter(pending, ascii_buffer, t, duration) ==
    [row \in (DOMAIN pending \ DOMAIN ascii_buffer)
             \cup {r \in DOMAIN ascii_buffer : DOMAIN ascii_buffer[r] # {}} |->
        IF row \in DOMAIN ascii_buffer
        THEN [line |-> ascii_buffer[row], time |-> t, duration |-> duration]
        ELSE [line |-> pending[row].line, time |-> pending[row].time,
              duration |-> ExtendedDuration(pending[row], duration)]]

\* sort_by_time: row_line_time + row_line_duration, row
SortKeyLess(d, r1, r2) ==
    \/ d[r1].time + d[r1].duration < d[r2].time + d[r2].duration
    \/ /\ d[r1].time + d[r1].duration = d[r2].time + d[r2].duration
       /\ r1 < r2

\* sorted(d, key=partial(sort_by_time, d)), as line events
RECURSIVE SortedLineEvents(_, _)
SortedLineEvents(d, rows) ==
    IF rows = {} THEN <<>>
    ELSE LET first == CHOOSE r \in rows :
                         \A q \in rows \ {r} : SortKeyLess(d, r, q)
         IN <<CharacterCellLineEvent(first, d[first].line, d[first].time,
                                     d[first].duration)>>
            \o SortedLineEvents(d, rows \ {first})

ReplayInit ==
    /\ pending_lines = <<>>
    /\ replay_time = 0
    /\ records_out = <<>>
    /\ rpc = "run"

\* One iteration of `for event_record in _group_by_time(...)`: the chunk is
\* fed to the screen, the dirty rows are converted and the dirty set
\* cleared, the pending lines are closed or extended, the closed lines are
\* yielded and the clock advances.  replay never reads the cursor.
ReplayFrame ==
    /\ rpc = "run"
    /\ nframes < MaxFrames
    /\ \E o \in FeedOutcomes(screen_buffer, screen_dirty), d \in 1..MaxDur :
       \E ab \in {AsciiBuffer(o.buffer, o.dirty)} :
       \E evs \in {SortedLineEvents(DoneLines(pending_lines, ab),
                                    DOMAIN DoneLines(pending_lines, ab))} :
            /\ o.cursor = screen_cursor
            /\ screen_buffer' = o.buffer
            /\ screen_dirty' = {}
            /\ pending_lines' = PendingAfter(pending_lines, ab, replay_time, d)
            /\ records_out' = records_out \o evs
            /\ events' = evs
            /\ replay_time' = replay_time + d
            /\ ObserveClosed(evs)
            /\ ObserveFrame(ab, replay_time, d)
    /\ nframes' = nframes + 1
    /\ rpc' = "run"
    /\ UNCHANGED <<zvars, avars, dvars, bvars, cvars, hvars, yielded>>
    /\ UNCHANGED <<gvars, screen_cursor, last_cursor, display_events, time,
                   spc, unclosed, orphan_closed>>

\* The frames are exhausted: the lines still pending are yielded.
ReplayEnd ==
    /\ rpc = "run"
    /\ \E evs \in {SortedLineEvents(pending_lines, DOMAIN pending_lines)} :
            /\ records_out' = records_out \o evs
            /\ events' = evs
            /\ ObserveClosed(evs)
    /\ rpc' = "done"
    /\ UNCHANGED <<zvars, avars, dvars, bvars, cvars, hvars, yielded>>
    /\ UNCHANGED <<gvars, svars, last_cursor, display_events, time, spc,
                   nframes, pending_lines, replay_time, displayed,
                   shown_times, unclosed, orphan_closed, total_duration>>

\* Either line-event generator, on a fresh screen.
LineEventsInit ==
    /\ ScreenInit /\ ObserversInit /\ GroupIdle
    /\ AnimationIdle /\ DefinitionsIdle /\ BinderIdle /\ FromPyteIdle /\ RecordsIdle /\ ZIdle
    /\ \/ ScreenEventsInit /\ ReplayIdle
       \/ ReplayInit /\ ScreenEventsIdle

LineEventsNext == ScreenFrame \/ ScreenEnd \/ ReplayFrame \/ ReplayEnd

SpecLineEvents == LineEventsInit /\ [][LineEventsNext]_vars

(***************************************************************************)
(* vectty/anim.py : AsciiAnimation.render_animation                        *)
(***************************************************************************)
\* f'anim_{animation_id}', animation_id = 0, 1, ...
ANIMATION_IDS ==
    <<"anim_0", "anim_1", "anim_2", "anim_3", "anim_4", "anim_5", "anim_6",
      "anim_7", "anim_8", "anim_9", "anim_10", "anim_11", "anim_12",
      "anim_13", "anim_14", "anim_15">>

AnimationIdStr(animation_id) == ANIMATION_IDS[animation_id + 1]

last_animation_id_str == "anim_last"

\* text.replace(' ', u' ')
Nbsp(value) == IF value = " " THEN "nbsp" ELSE value

\* First columns of the groups of _render_characters: a group ends at col
\* when col + 1 is not in the line or has another text colour.
TextGroupStarts(screen_line) ==
    { c \in DOMAIN screen_line :
        \/ c - 1 \notin DOMAIN screen_line
        \/ screen_line[c - 1].text_color # screen_line[c].text_color }

\* Last column of the group starting at column c
TextGroupEnd(screen_line, c) ==
    CHOOSE e \in DOMAIN screen_line :
        /\ e >= c
        /\ \A k \in c..e : k \in DOMAIN screen_line
        /\ \A k \in c..(e - 1) :
              screen_line[k].text_color = screen_line[k + 1].text_color
        /\ \/ e + 1 \notin DOMAIN screen_line
           \/ screen_line[e].text_color # screen_line[e + 1].text_color

\* make_text(group): no class attribute for the foreground colour
MakeText(screen_line, c) ==
    LET e == TextGroupEnd(screen_line, c)
    IN [text |-> [i \in 1..(e - c + 1) |-> Nbsp(screen_line[c + i - 1].value)],
        x |-> c * 8,
        textLength |-> (e - c + 1) * 8,
        class |-> IF screen_line[c].text_color # "foreground"
                  THEN screen_line[c].text_color ELSE "none"]

\* g.tostring() of the group holding the texts of _render_characters
GroupString(screen_line) ==
    LET starts == SortedRows(TextGroupStarts(screen_line))
    IN [i \in 1..Len(starts) |-> MakeText(screen_line, starts[i])]

\* by_time
ByTime(record) == <<record.time, record.duration>>

\* groupby(records, key=by_time): the run of consecutive records with the
\* key of records[pos]
RECURSIVE LineGroupEnd(_, _)
LineGroupEnd(records, pos) ==
    IF pos < Len(records) /\ ByTime(records[pos + 1]) = ByTime(records[pos])
    THEN LineGroupEnd(records, pos + 1)
    ELSE pos

LineGroup(records, pos) == SubSeq(records, pos, LineGroupEnd(records, pos))

\* group_id = len(self.defs) + 1
NextGroupId(d) == Cardinality(DOMAIN d) + 1

\* self.defs[g_str] = group_id
WithDefinition(d, g_str, group_id) ==
    [s \in DOMAIN d \cup {g_str} |-> IF s = g_str THEN group_id ELSE d[s]]

\* f'{row_anim_id}.end+{offset}ms'
RowBegin(row_animation, line_time) ==
    [start |-> None, ref |-> row_animation.id,
     offset |-> line_time - row_animation.end]

\* f'{line_time}ms;{last_animation_id_str}.end+{line_time}ms'
LoopBegin(line_time) ==
    [start |-> line_time, ref |-> last_animation_id_str, offset |-> line_time]

\* The body of `for row, line, _, _ in line_group`, folded over the group.
\* acc holds self.defs, dwg.defs, the uses, animation_begin, row_animations.
RECURSIVE RenderGroupLines(_, _, _)
RenderGroupLines(line_group, acc, animation_id_str) ==
    IF line_group = <<>> THEN acc
    ELSE LET rec == Head(line_group)
             g_str == GroupString(rec.line)
             known == g_str \in DOMAIN acc.defs
             group_id == IF known THEN acc.defs[g_str]
                         ELSE NextGroupId(acc.defs)
             chained == acc.begin = <<>> /\ rec.row \in DOMAIN acc.row_animations
         IN RenderGroupLines(Tail(line_group),
              [defs |-> IF known THEN acc.defs
                        ELSE WithDefinition(acc.defs, g_str, group_id),
               dwg_defs |-> IF known THEN acc.dwg_defs
                            ELSE acc.dwg_defs \cup {group_id},
               uses |-> Append(acc.uses, group_id),
               begin |-> IF chained
                         THEN <<RowBegin(acc.row_animations[rec.row], rec.time)>>
                         ELSE acc.begin,
               row_animations |->
                   [r \in DOMAIN acc.row_animations \cup {rec.row} |->
                       IF r = rec.row
                       THEN [id |-> animation_id_str,
                             end |-> rec.time + rec.duration]
                       ELSE acc.row_animations[r]]],
              animation_id_str)

\* svgwrite.animate.Animate('display', **extra)
Animate(begin, dur, id) == [begin |-> begin, dur |-> dur, id |-> id]

\* Mutant: the last animation keeps its own id.
StampLast_Forgotten(anims) == anims

\* animation.attribs['id'] = last_animation_id_str
StampLast(anims) ==
    [i \in 1..Len(anims) |->
        IF i = Len(anims)
        THEN Animate(anims[i].begin, anims[i].dur, last_animation_id_str)
        ELSE anims[i]]

\* AsciiAnimation(): self.defs = {}
AnimationInit ==
    /\ defs = <<>>
    /\ dwg_defs = {}
    /\ dwg_uses = <<>>
    /\ animations = <<>>
    /\ row_animations = <<>>
    /\ render_pos = 1
    /\ renders = 0
    /\ vpc = "new"

\* render_animation is called with the records of replay: a new drawing
\* and a new row_animations, self.defs as the object holds it.
RenderStart ==
    /\ rpc = "done"
    /\ vpc \in {"new", "saved"}
    /\ renders < MaxRenders
    /\ dwg_defs' = {}
    /\ dwg_uses' = <<>>
    /\ animations' = <<>>
    /\ row_animations' = <<>>
    /\ render_pos' = 1
    /\ renders' = renders + 1
    /\ vpc' = "render"
    /\ UNCHANGED <<zvars, gvars, svars, tvars, rvars, ovars, dvars, bvars, cvars, hvars, yielded, defs>>

\* One iteration of `for animation_id, (key, line_group) in enumerate(...)`
RenderGroup ==
    /\ vpc = "render"
    /\ render_pos <= Len(records_out)
    /\ \E acc \in {RenderGroupLines(LineGroup(records_out, render_pos),
                       [defs |-> defs, dwg_defs |-> dwg_defs,
                        uses |-> dwg_uses, begin |-> <<>>,
                        row_animations |-> row_animations],
                       AnimationIdStr(Len(animations)))} :
            /\ defs' = acc.defs
            /\ dwg_defs' = acc.dwg_defs
            /\ dwg_uses' = acc.uses
            /\ row_animations' = acc.row_animations
            /\ animations' =
                 Append(animations,
                        Animate(IF acc.begin = <<>>
                                THEN LoopBegin(records_out[render_pos].time)
                                ELSE acc.begin[1],
                                records_out[render_pos].duration,
                                AnimationIdStr(Len(animations))))
    /\ render_pos' = LineGroupEnd(records_out, render_pos) + 1
    /\ UNCHANGED <<zvars, gvars, svars, tvars, rvars, ovars, dvars, bvars, cvars, hvars, yielded, renders, vpc>>

\* After the loop: the last animation is stamped and the drawing saved.
\* Without any record `animation` is None and the stamping raises.
RenderSave ==
    /\ vpc = "render"
    /\ render_pos > Len(records_out)
    /\ IF animations = <<>>
       THEN /\ vpc' = "error"
            /\ UNCHANGED animations
       ELSE /\ vpc' = "saved"
            /\ animations' = StampLast(animations)
    /\ UNCHANGED <<zvars, gvars, svars, tvars, rvars, ovars, dvars, bvars, cvars, hvars, yielded, defs, dwg_defs,
                   dwg_uses, row_animations, render_pos, renders>>

VecttyNext ==
    ReplayFrame \/ ReplayEnd \/ RenderStart \/ RenderGroup \/ RenderSave

\* vectty: replay on a fresh screen, its records rendered by one
\* AsciiAnimation object, possibly more than once.
VecttyInit ==
    /\ ScreenInit /\ ReplayInit /\ ObserversInit /\ AnimationInit
    /\ GroupIdle /\ ScreenEventsIdle /\ DefinitionsIdle /\ BinderIdle /\ FromPyteIdle /\ RecordsIdle /\ ZIdle

SpecVectty == VecttyInit /\ [][VecttyNext]_vars

(***************************************************************************)
(* termtosvg/anim.py : _render_characters, _render_line,                   *)
(*                     _render_timed_frame, _render_animation              *)
(***************************************************************************)
CELL_WIDTH == 8

\* The cells of the frames handed to the renderer.
RenderCells ==
    { FromPyte(Char("a", "default", "default", FALSE, FALSE)),
      FromPyte(Char("a", "default", "red", FALSE, FALSE)),
      FromPyte(Char("b", "red", "default", TRUE, FALSE)) }

\* The lines of the frames: empty, one cell, or two cells.
RenderLines ==
    UNION { [cols -> RenderCells] : cols \in {{}, {0}} }
    \cup { [c \in {0, 1} |-> cell] : cell \in RenderCells }
    \cup { [c \in {0, 1} |-> IF c = 0 THEN FromPyte(Char("a", "default", "default", FALSE, FALSE))
                             ELSE FromPyte(Char("b", "red", "default", TRUE, FALSE))] }

\* frame.buffer: row -> line
RenderBuffers == [Rows -> RenderLines]

\* ConsecutiveWithSameAttributes(['color', 'bold', ...]): a cell opens a
\* group when the previous index is not its left neighbour or has other
\* attributes.
SameTextAttributes(a, b) == a.color = b.color /\ a.bold = b.bold

CellGroupStarts(screen_line) ==
    { c \in DOMAIN screen_line :
        \/ c - 1 \notin DOMAIN screen_line
        \/ ~SameTextAttributes(screen_line[c - 1], screen_line[c]) }

\* Last column of the group opened at column c
CellGroupEnd(screen_line, c) ==
    CHOOSE e \in DOMAIN screen_line :
        /\ e >= c
        /\ \A k \in c..e : k \in DOMAIN screen_line
        /\ \A k \in (c + 1)..e : k \notin CellGroupStarts(screen_line)
        /\ e + 1 \in DOMAIN screen_line => e + 1 \in CellGroupStarts(screen_line)

\* _make_text_tag: wcswidth of the one-column characters is their number
MakeTextTag(screen_line, c) ==
    LET e == CellGroupEnd(screen_line, c)
    IN [x |-> c * CELL_WIDTH,
        textLength |-> (e - c + 1) * CELL_WIDTH,
        bold |-> screen_line[c].bold,
        class |-> screen_line[c].color,
        text |-> [i \in 1..(e - c + 1) |-> screen_line[c + i - 1].text]]

\* etree.tostring(text_group_tag), before the id is set
TextGroupString(screen_line) ==
    LET starts == SortedRows(CellGroupStarts(screen_line))
    IN [i \in 1..Len(starts) |-> MakeTextTag(screen_line, starts[i])]

\* 'g{}'.format(n)
GroupId(n) == [prefix |-> "g", number |-> n]

\* Mutant: the definitions made earlier in the frame are not looked up.
CurrentDefinitions_NoGroup(defined, group_definitions) == defined

\* current_definitions = {**definitions, **group_definitions}
CurrentDefinitions(defined, group_definitions) ==
    [s \in DOMAIN defined \cup DOMAIN group_definitions |->
        IF s \in DOMAIN group_definitions THEN group_definitions[s]
        ELSE defined[s]]

\* _render_line: the id used for the line and the new definitions
RenderLine(row, current_definitions) ==
    LET text_group_tag_str == TextGroupString(row)
    IN IF text_group_tag_str \in DOMAIN current_definitions
       THEN [group_id |-> current_definitions[text_group_tag_str],
             new_definitions |-> <<>>,
             str |-> text_group_tag_str]
       ELSE [group_id |-> GroupId(Cardinality(DOMAIN current_definitions) + 1),
             new_definitions |->
                 [s \in {text_group_tag_str} |->
                     GroupId(Cardinality(DOMAIN current_definitions) + 1)],
             str |-> text_group_tag_str]

\* _render_timed_frame, folded over the rows of the buffer: the definitions
\* of the group and the lines rendered, in order.
RECURSIVE RenderTimedFrame(_, _, _, _)
RenderTimedFrame(buffer, rows, defined, acc) ==
    IF rows = <<>> THEN acc
    ELSE IF DOMAIN buffer[Head(rows)] = {}
         THEN RenderTimedFrame(buffer, Tail(rows), defined, acc)
         ELSE LET r == RenderLine(buffer[Head(rows)],
                           CurrentDefinitions(defined, acc.group_definitions))
              IN RenderTimedFrame(buffer, Tail(rows), defined,
                    [group_definitions |->
                         CurrentDefinitions(acc.group_definitions,
                                            r.new_definitions),
                     lines |-> Append(acc.lines,
                                  [line |-> buffer[Head(rows)],
                                   str |-> r.str,
                                   id |-> r.group_id])])

\* _render_animation before its loop: definitions = {}
DefinitionsInit ==
    /\ definitions = <<>>
    /\ line_ids = <<>>
    /\ tree_defs = {}
    /\ frame_count = 0
    /\ kpc = "run"

\* One iteration of `for frame_count, frame in enumerate(frames)`
RenderFrame ==
    /\ kpc = "run"
    /\ frame_count < MaxFrames
    /\ \E buffer \in RenderBuffers :
       \E r \in {RenderTimedFrame(buffer, SortedRows(DOMAIN buffer), definitions,
                                  [group_definitions |-> <<>>, lines |-> <<>>])} :
            /\ definitions' = CurrentDefinitions(definitions, r.group_definitions)
            /\ line_ids' = line_ids \o r.lines
    /\ frame_count' = frame_count + 1
    /\ UNCHANGED <<zvars, gvars, svars, tvars, rvars, ovars, avars, bvars, cvars, hvars, yielded, tree_defs, kpc>>

\* After the loop: every definition is appended to the <defs> of the screen.
RenderDefs ==
    /\ kpc = "run"
    /\ tree_defs' = { definitions[s] : s \in DOMAIN definitions }
    /\ kpc' = "done"
    /\ UNCHANGED <<zvars, gvars, svars, tvars, rvars, ovars, avars, bvars, cvars, hvars, yielded, definitions,
                   line_ids, frame_count>>

DefinitionsNext == RenderFrame \/ RenderDefs

\* termtosvg: one call of _render_animation on any frames.
DefinitionsStart ==
    /\ DefinitionsInit
    /\ ScreenInit /\ ObserversInit /\ GroupIdle /\ ScreenEventsIdle
    /\ ReplayIdle /\ AnimationIdle /\ BinderIdle /\ FromPyteIdle /\ RecordsIdle /\ ZIdle

SpecDefinitions == DefinitionsStart /\ [][DefinitionsNext]_vars

(***************************************************************************)
(* termtosvg/anim.py : resize_template, _render_preparation,               *)
(*                     render_animation, render_still_frames               *)
(***************************************************************************)
CELL_HEIGHT == 17

\* The text of an attribute: a decimal integer, any other text, or no
\* attribute at all.
IntText(n) == [kind |-> "int", n |-> n, s |-> ""]
OtherText(str) == [kind |-> "other", n |-> 0, s |-> str]
Missing == [kind |-> "missing", n |-> 0, s |-> ""]

\* A viewBox attribute: its numbers and the separator between them.
ViewBox(sep, tokens) == [kind |-> "viewBox", sep |-> sep, tokens |-> tokens]

Element(viewBox, width, height) ==
    [viewBox |-> viewBox, width |-> width, height |-> height]

\* A well-formed template declaring (ct, rt).
Template(ct, rt, sep, width) ==
    [settings |-> TRUE,
     screen_geometry |-> TRUE,
     columns |-> IntText(ct),
     rows |-> IntText(rt),
     animation |-> "css",
     root |-> Element(ViewBox(sep, <<IntText(0), IntText(0), IntText(20),
                                     IntText(40)>>),
                      width, Missing),
     has_screen |-> TRUE,
     screen |-> Element(ViewBox(sep, <<IntText(1), IntText(2), IntText(16),
                                       IntText(34)>>),
                        Missing, IntText(34)),
     style |-> TRUE]

ValidTemplates ==
    { Template(ct, rt, sep, width) :
        ct \in 1..MaxGeometry, rt \in 1..MaxGeometry, sep \in {",", " "},
        width \in {Missing, IntText(20)} }

\* Templates with one defect each.
DefectiveTemplates ==
    LET t == Template(1, 1, " ", Missing)
        vb3 == ViewBox(" ", <<IntText(0), IntText(0), IntText(20)>>)
        vbf == ViewBox(" ", <<IntText(0), IntText(0), OtherText("20.5"),
                              IntText(40)>>)
    IN { [t EXCEPT !.settings = FALSE],
         [t EXCEPT !.screen_geometry = FALSE],
         [t EXCEPT !.columns = OtherText("eighty")],
         [t EXCEPT !.rows = IntText(0)],
         [t EXCEPT !.columns = IntText(-1)],
         [t EXCEPT !.has_screen = FALSE],
         [t EXCEPT !.root.viewBox = Missing],
         [t EXCEPT !.screen.viewBox = Missing],
         [t EXCEPT !.root.viewBox = vb3],
         [t EXCEPT !.screen.viewBox = vbf],
         [t EXCEPT !.style = FALSE],
         [t EXCEPT !.animation = "smil"],
         [t EXCEPT !.root.width = OtherText("100%")],
         [t EXCEPT !.screen.height = OtherText("100%")] }

Templates == ValidTemplates \cup DefectiveTemplates

Geometries == (1..MaxGeometry) \X (1..MaxGeometry)

\* int(text) succeeds
IsInt(text) == text.kind = "int"

\* vb_min_x, vb_min_y, vb_width, vb_height = [int(n) for n in viewbox]
FourIntegers(viewBox) ==
    /\ Len(viewBox.tokens) = 4
    /\ \A i \in 1..4 : IsInt(viewBox.tokens[i])

\* ' '.join(map(str, (vb_min_x, vb_min_y, vb_width, vb_height)))
ScaledViewBox(viewBox, dw, dh) ==
    ViewBox(" ", <<viewBox.tokens[1], viewBox.tokens[2],
                   IntText(viewBox.tokens[3].n + dw),
                   IntText(viewBox.tokens[4].n + dh)>>)

\* Mutant: the attribute is left as it is.
ScaledAttribute_Unchanged(text, delta) == text

\* str(int(element.attrib[attribute]) + delta)
ScaledAttribute(text, delta) == IntText(text.n + delta)

\* The exception raised by scale(element, ...), "ok" when none is.
ScaleStatus(element) ==
    IF element.viewBox = Missing THEN "TemplateError"
    ELSE IF ~FourIntegers(element.viewBox) THEN "ValueError"
    ELSE IF element.width # Missing /\ ~IsInt(element.width)
         THEN "TemplateError"
    ELSE IF element.height # Missing /\ ~IsInt(element.height)
         THEN "TemplateError"
    ELSE "ok"

\* The element returned by scale(element, ...) when it raises nothing.
Scale(element, template_columns, template_rows, columns, rows) ==
    LET dw == CELL_WIDTH * (columns - template_columns)
        dh == CELL_HEIGHT * (rows - template_rows)
    IN Element(ScaledViewBox(element.viewBox, dw, dh),
               IF element.width = Missing THEN Missing
               ELSE ScaledAttribute(element.width, dw),
               IF element.height = Missing THEN Missing
               ELSE ScaledAttribute(element.height, dh))

\* The exception raised by resize_template, "ok" when none is.
ResizeStatus(doc) ==
    IF ~doc.settings THEN "TemplateError"
    ELSE IF ~doc.screen_geometry THEN "TemplateError"
    ELSE IF ~IsInt(doc.columns) \/ ~IsInt(doc.rows) THEN "TemplateError"
    ELSE IF doc.rows.n <= 0 \/ doc.columns.n <= 0 THEN "TemplateError"
    ELSE IF ScaleStatus(doc.root) # "ok" THEN ScaleStatus(doc.root)
    ELSE IF ~doc.has_screen THEN "TemplateError"
    ELSE ScaleStatus(doc.screen)

\* Mutant: the geometry declared by the template is kept.
DeclaredGeometry_Kept(doc, columns, rows) == <<doc.columns, doc.rows>>

\* svg_geometry.attrib['columns'], svg_geometry.attrib['rows'] =
\*     (str(columns), str(rows))
DeclaredGeometry(doc, columns, rows) == <<IntText(columns), IntText(rows)>>

\* The root returned by resize_template when it raises nothing.
ResizeTemplate(doc, columns, rows) ==
    [doc EXCEPT
        !.columns = DeclaredGeometry(doc, columns, rows)[1],
        !.rows = DeclaredGeometry(doc, columns, rows)[2],
        !.root = Scale(doc.root, doc.columns.n, doc.rows.n, columns, rows),
        !.screen = Scale(doc.screen, doc.columns.n, doc.rows.n, columns, rows)]

\* The exception raised by _add_animation and the animator it calls.
AddAnimationStatus(doc) ==
    IF ~doc.settings THEN "TemplateError"
    ELSE IF doc.animation \notin {"css", "waapi"} THEN "TemplateError"
    ELSE IF ~doc.style THEN "TemplateError"
    ELSE "ok"

\* The exception raised by _embed_css(frame_root)
EmbedCssStatus(doc) == IF ~doc.style THEN "TemplateError" ELSE "ok"

\* What iterating on `frames` gives: a frame, or the exception raised by
\* the generator producing the frames.
FrameOutcomes == {"frame", "ValueError"}

BinderInit ==
    /\ template \in Templates
    /\ original = template
    /\ geometry = <<>>
    /\ bstatus = "ok"
    /\ bpc = "start"
    /\ still \in BOOLEAN
    /\ assembled = 0
    /\ written = 0
    /\ binds = 0
    /\ ScreenInit /\ ObserversInit /\ GroupIdle /\ ScreenEventsIdle
    /\ ReplayIdle /\ AnimationIdle /\ DefinitionsIdle
    /\ FromPyteIdle /\ RecordsIdle /\ ZIdle

\* _render_preparation, first statement of render_animation and of
\* render_still_frames: the template is resized to the geometry.
RenderPreparation ==
    /\ bpc = "start"
    /\ binds < MaxBinds
    /\ binds' = binds + 1
    /\ assembled' = 0
    /\ written' = 0
    /\ \E g \in Geometries :
         /\ geometry' = g
         /\ bstatus' = ResizeStatus(template)
         /\ IF ResizeStatus(template) = "ok"
            THEN /\ template' = ResizeTemplate(template, g[1], g[2])
                 /\ bpc' = "prepared"
            ELSE /\ template' = template
                 /\ bpc' = "failed"
    /\ UNCHANGED <<zvars, gvars, svars, tvars, rvars, ovars, avars, dvars, cvars, hvars,
                   yielded, original,
                   still>>

\* _render_animation: one iteration of the loop over the frames.
AnimationFrame ==
    /\ bpc = "prepared" /\ ~still
    /\ assembled < MaxFrames
    /\ \E outcome \in FrameOutcomes :
         IF outcome = "frame"
         THEN /\ assembled' = assembled + 1
              /\ UNCHANGED <<bstatus, bpc>>
         ELSE /\ bstatus' = outcome
              /\ bpc' = "failed"
              /\ UNCHANGED assembled
    /\ UNCHANGED <<zvars, gvars, svars, tvars, rvars, ovars, avars, dvars, cvars, hvars,
                   yielded, template,
                   original, geometry, still, written, binds>>

\* _render_animation after its loop (_add_animation), then render_animation
\* writes the file.
AnimationWrite ==
    /\ bpc = "prepared" /\ ~still
    /\ bstatus' = AddAnimationStatus(template)
    /\ IF AddAnimationStatus(template) = "ok"
       THEN /\ written' = written + 1
            /\ bpc' = "done"
       ELSE /\ written' = written
            /\ bpc' = "failed"
    /\ UNCHANGED <<zvars, gvars, svars, tvars, rvars, ovars, avars, dvars, cvars, hvars,
                   yielded, template,
                   original, geometry, still, assembled, binds>>

\* render_still_frames: one iteration of the loop over the generator
\* _render_still_frames: the next frame is rendered, then written.
StillFrame ==
    /\ bpc = "prepared" /\ still
    /\ assembled < MaxFrames
    /\ \E outcome \in FrameOutcomes :
         IF outcome = "frame" /\ EmbedCssStatus(template) = "ok"
         THEN /\ assembled' = assembled + 1
              /\ written' = written + 1
              /\ UNCHANGED <<bstatus, bpc>>
         ELSE /\ bstatus' = IF outcome = "frame"
                            THEN EmbedCssStatus(template) ELSE outcome
              /\ bpc' = "failed"
              /\ UNCHANGED <<assembled, written>>
    /\ UNCHANGED <<zvars, gvars, svars, tvars, rvars, ovars, avars, dvars, cvars, hvars,
                   yielded, template,
                   original, geometry, still, binds>>

\* render_still_frames: the frames are exhausted.
StillEnd ==
    /\ bpc = "prepared" /\ still
    /\ bpc' = "done"
    /\ UNCHANGED <<zvars, gvars, svars, tvars, rvars, ovars, avars, dvars, cvars, hvars,
                   yielded, template,
                   original, geometry, bstatus, still, assembled, written,
                   binds>>

\* The animation written serves as the template of another render.
Reuse ==
    /\ bpc = "done" /\ ~still
    /\ binds < MaxBinds
    /\ bpc' = "start"
    /\ \E s \in BOOLEAN : still' = s
    /\ UNCHANGED <<zvars, gvars, svars, tvars, rvars, ovars, avars, dvars, cvars, hvars,
                   yielded, template,
                   original, geometry, bstatus, assembled, written, binds>>

BinderNext ==
    \/ RenderPreparation \/ AnimationFrame \/ AnimationWrite
    \/ StillFrame \/ StillEnd \/ Reuse

SpecBinder == BinderInit /\ [][BinderNext]_vars

(***************************************************************************)
(* termtosvg/anim.py : CharacterCell.from_pyte applied to one character    *)
(***************************************************************************)
FromPyteInit ==
    /\ pyte_char \in PyteChars
    /\ char_cell = NoCell
    /\ cpc = "char"
    /\ ScreenInit /\ ObserversInit /\ GroupIdle /\ ScreenEventsIdle
    /\ ReplayIdle /\ AnimationIdle /\ DefinitionsIdle /\ BinderIdle
    /\ RecordsIdle /\ ZIdle

\* CharacterCell.from_pyte(char)
FromPyteCall ==
    /\ cpc = "char"
    /\ IF FromPyteStatus(pyte_char) = "ok"
       THEN /\ char_cell' = FromPyte(pyte_char)
            /\ cpc' = "cell"
       ELSE /\ char_cell' = char_cell
            /\ cpc' = "error"
    /\ UNCHANGED <<zvars, gvars, svars, tvars, rvars, ovars, avars, dvars, bvars,
                   hvars, yielded, pyte_char>>

FromPyteNext == FromPyteCall

SpecFromPyte == FromPyteInit /\ [][FromPyteNext]_vars

(***************************************************************************)
(* termtosvg/asciicast.py : read_records, and the first record as          *)
(* term.screen_events takes it                                             *)
(***************************************************************************)
\* A line of a cast file: a v2 header, a JSON object declaring another
\* version of the format, a whole asciicast v1 recording, an event, or a
\* line that is not JSON.
LINE_KINDS == {"header", "header_v3", "v1", "event", "garbage"}

CastFiles == UNION { [1..n -> LINE_KINDS] : n \in 1..MaxLines }

HeaderRecord == [type |-> "AsciiCastV2Header"]
EventRecord == [type |-> "AsciiCastV2Event"]

\* AsciiCastV2Record.from_json_line(line): the exception raised, "ok" when
\* a record is returned.  AsciiCastV2Header.__new__ rejects any version
\* but 2.
FromJsonLineStatus(line) ==
    IF line \in {"header", "event"} THEN "ok" ELSE "AsciiCastError"

FromJsonLine(line) == IF line = "header" THEN HeaderRecord ELSE EventRecord

\* _read_v1_records(data) up to its first record: the whole file must be
\* one JSON object holding version 1, width, height and stdout.
ReadV1Status(file) ==
    IF Len(file) = 1 /\ file[1] = "v1" THEN "ok" ELSE "AsciiCastError"

\* The first next() on read_records(filename)
FirstRecordStatus(file) ==
    IF FromJsonLineStatus(file[1]) = "ok" THEN "ok" ELSE ReadV1Status(file)

FirstRecord(file) ==
    IF FromJsonLineStatus(file[1]) = "ok" THEN FromJsonLine(file[1])
    ELSE HeaderRecord

\* `assert isinstance(header, AsciiCastV2Header)`, and the attribute read
\* that follows when assertions are compiled out.
NotAHeaderOutcomes == {"AssertionError", "AttributeError"}

RecordsInit ==
    /\ cast_file \in CastFiles
    /\ first_record = NoRecord
    /\ hstatus = "ok"
    /\ hpc = "open"
    /\ produced = 0
    /\ ScreenInit /\ ObserversInit /\ GroupIdle /\ ScreenEventsIdle
    /\ ReplayIdle /\ AnimationIdle /\ DefinitionsIdle /\ BinderIdle
    /\ FromPyteIdle /\ ZIdle

\* header = next(records), records being read_records(filename)
ReadRecord ==
    /\ hpc = "open"
    /\ hstatus' = FirstRecordStatus(cast_file)
    /\ IF FirstRecordStatus(cast_file) = "ok"
       THEN /\ first_record' = FirstRecord(cast_file)
            /\ hpc' = "record"
       ELSE /\ first_record' = first_record
            /\ hpc' = "failed"
    /\ UNCHANGED <<zvars, gvars, svars, tvars, rvars, ovars, avars, dvars, bvars,
                   cvars, yielded, cast_file, produced>>

\* screen_events: the header is checked, then the Configuration yielded.
ScreenEventsHeader ==
    /\ hpc = "record"
    /\ IF first_record = HeaderRecord
       THEN /\ produced' = produced + 1
            /\ hpc' = "configured"
            /\ hstatus' = hstatus
       ELSE /\ produced' = produced
            /\ hpc' = "failed"
            /\ hstatus' \in NotAHeaderOutcomes
    /\ UNCHANGED <<zvars, gvars, svars, tvars, rvars, ovars, avars, dvars, bvars,
                   cvars, yielded, cast_file, first_record>>

RecordsNext == ReadRecord \/ ScreenEventsHeader

SpecRecords == RecordsInit /\ [][RecordsNext]_vars

(***************************************************************************)
(* termtosvg/term.py : _feed, and the loop body of vectty replay, applied  *)
(* to one frame                                                            *)
(***************************************************************************)
\* The lines of a dirty-row map: an empty line, or a line with one cell.
FeedLines == {<<>>, [c \in {0} |-> "a"], [c \in {0} |-> "b"]}

\* The dirty-row maps: some rows, each with its line.
RedrawBuffers == UNION { [rows -> FeedLines] : rows \in SUBSET Rows }

\* The lines on screen at clock t, in the order of their insertion: rows
\* are distinct, lines are not empty, and each appeared before t.
DisplayEventsAt(t) ==
    UNION { { de \in [1..n -> [row : Rows, line : FeedLines \ {<<>>},
                                time : 0..(t - 1), duration : {None}]] :
                \A i, j \in 1..n : i # j => de[i].row # de[j].row } :
            n \in 0..Cardinality(Rows) }

\* pending_lines of replay holding the same lines at clock t
PendingOf(de, t) ==
    [row \in { de[i].row : i \in 1..Len(de) } |->
        LET ev == de[CHOOSE i \in 1..Len(de) : de[i].row = row]
        IN [line |-> ev.line, time |-> ev.time, duration |-> t - ev.time]]

FeedInit ==
    /\ feed_clock \in 1..MaxTime
    /\ feed_dur \in 1..MaxDur
    /\ feed_de \in DisplayEventsAt(feed_clock)
    /\ feed_redraw \in RedrawBuffers
    /\ feed_de_out = <<>>
    /\ feed_pending_out = <<>>
    /\ feed_events = <<>>
    /\ epc = "input"
    /\ ScreenInit /\ ObserversInit /\ GroupIdle /\ ScreenEventsIdle
    /\ ReplayIdle /\ AnimationIdle /\ DefinitionsIdle /\ BinderIdle
    /\ FromPyteIdle /\ RecordsIdle
    /\ JsonIdle /\ V1Idle /\ TerminalIdle /\ TimingsIdle /\ RunsIdle
    /\ CaptureIdle

\* display_events, events = _feed(redraw_buffer, display_events, time)
FeedCall ==
    /\ epc = "input"
    /\ feed_de_out' = FeedDisplayEvents(feed_redraw, feed_de, feed_clock)
    /\ feed_events' = FeedEvents(feed_redraw, feed_de, feed_clock)
    /\ epc' = "feed"
    /\ UNCHANGED <<corevars, jvars, wvars, mvars, ivars, nvars, pvars,
                   feed_redraw, feed_de, feed_clock, feed_dur,
                   feed_pending_out>>

\* The body of replay's loop on the same frame: done_lines, the update of
\* pending_lines and the events yielded.
ReplayCall ==
    /\ epc = "input"
    /\ \E pending \in {PendingOf(feed_de, feed_clock)} :
         /\ feed_pending_out' =
               PendingAfter(pending, feed_redraw, feed_clock, feed_dur)
         /\ feed_events' =
               SortedLineEvents(DoneLines(pending, feed_redraw),
                                DOMAIN DoneLines(pending, feed_redraw))
    /\ epc' = "replay"
    /\ UNCHANGED <<corevars, jvars, wvars, mvars, ivars, nvars, pvars,
                   feed_redraw, feed_de, feed_clock, feed_dur, feed_de_out>>

FeedNext == FeedCall \/ ReplayCall

SpecFeed == FeedInit /\ [][FeedNext]_vars

(***************************************************************************)
(* termtosvg/term.py : _group_by_time                                      *)
(***************************************************************************)
AsciiCastV2Event(t, event_type, event_data, duration) ==
    [time |-> t, event_type |-> event_type,
     event_data |-> event_data, duration |-> duration]

\* Input records: any time, type 'o' or 'i'; the data of the k-th record is
\* the one-chunk string <<k>>, so that concatenations show order and loss.
InputEvents(k) ==
    { [time |-> t, event_type |-> ty, event_data |-> <<k>>] :
        t \in 0..MaxTime, ty \in {"o", "i"} }

\* time_between_events = event_record.time - (current_time + dropped_time)
TimeBetweenEvents(ev) == ev.time - (current_time + dropped_time)

\* if time_between_events * 1000 >= min_rec_duration
CloseEnough(tbe) == tbe < min_rec_duration

\* Mutant: the gap is never compared with max_rec_duration.
IdleCapped_Never(tbe) == FALSE

\* if max_rec_duration: if max_rec_duration < time_between_events
IdleCapped(tbe) == max_rec_duration # NoMax /\ max_rec_duration < tbe

\* Mutant: the idle cap is forgotten.
RecordDuration_NoCap(tbe) == tbe

\* duration of the yielded record after the idle cap
RecordDuration(tbe) == IF IdleCapped(tbe) THEN max_rec_duration ELSE tbe

\* dropped_time += time_between_events - max_rec_duration
DroppedAfter(tbe) ==
    IF IdleCapped(tbe) THEN dropped_time + (tbe - max_rec_duration)
    ELSE dropped_time

\* Mutant: the clock advances by the uncapped gap.
CurrentTimeAfter_Uncapped(tbe) == current_time + tbe

\* current_time += time_between_events   (after the cap)
CurrentTimeAfter(tbe) == current_time + RecordDuration(tbe)

\* duration=last_rec_duration / 1000
LastDuration == last_rec_duration

\* Mutant: the record's data replaces the data accumulated so far.
MergedString_Overwrite(cs, ev) == ev.event_data

\* current_string += event_record.event_data
MergedString(cs, ev) == cs \o ev.event_data

\* screen_events: `if not max_frame_dur and header.idle_time_limit:
\* max_frame_dur = int(header.idle_time_limit * 1000)`, the limit in ms.
MaxFrameDur(max_frame_dur, idle_time_limit) ==
    IF max_frame_dur = NoMax /\ idle_time_limit # NoMax
    THEN idle_time_limit ELSE max_frame_dur

\* _group_by_time as a function of its input: the records yielded for
\* `records`, from the accumulator (cs, ct, dt) and the records `out`
\* yielded before.
RECURSIVE GroupByTime(_, _, _, _, _)
GroupByTime(records, cs, ct, dt, out) ==
    IF records = <<>>
    THEN Append(out, AsciiCastV2Event(ct, "o", cs, last_rec_duration))
    ELSE LET ev == Head(records)
             tbe == ev.time - (ct + dt)
             capped == max_rec_duration # NoMax /\ max_rec_duration < tbe
             d == IF capped THEN max_rec_duration ELSE tbe
         IN IF ev.event_type # "o"
            THEN GroupByTime(Tail(records), cs, ct, dt, out)
            ELSE IF tbe >= min_rec_duration
                 THEN GroupByTime(Tail(records), ev.event_data, ct + d,
                                  IF capped THEN dt + (tbe - max_rec_duration)
                                  ELSE dt,
                                  Append(out, AsciiCastV2Event(ct, "o", cs, d)))
                 ELSE GroupByTime(Tail(records), MergedString(cs, ev), ct, dt,
                                  out)

\* The variables of the other components while the coalescer is studied
\* alone: a fresh screen, no frame processed.
GroupOthersIdle ==
    /\ ScreenInit
    /\ ScreenEventsIdle
    /\ ReplayIdle
    /\ AnimationIdle
    /\ DefinitionsIdle
    /\ BinderIdle /\ FromPyteIdle /\ RecordsIdle /\ ZIdle
    /\ ObserversInit

GroupInit ==
    /\ min_rec_duration \in 1..MaxParam
    /\ \E max_frame_dur, idle_time_limit \in {NoMax} \cup 1..MaxParam :
          max_rec_duration = MaxFrameDur(max_frame_dur, idle_time_limit)
    /\ last_rec_duration \in 1..MaxParam
    /\ event_records = <<>>
    /\ current_string = <<>>
    /\ current_time = 0
    /\ dropped_time = 0
    /\ grouped = <<>>
    /\ gpc = "run"
    /\ GroupOthersIdle

\* One iteration of `for event_record in event_records` on a record that is
\* not of type 'o': `continue`.
GroupSkip ==
    /\ gpc = "run"
    /\ Len(event_records) < MaxEvents
    /\ \E ev \in InputEvents(Len(event_records) + 1) :
         /\ ev.event_type # "o"
         /\ event_records' = Append(event_records, ev)
    /\ UNCHANGED <<zvars, svars, tvars, rvars, ovars, avars, dvars, bvars, cvars, hvars, yielded>>
    /\ UNCHANGED <<min_rec_duration, max_rec_duration, last_rec_duration,
                   current_string, current_time, dropped_time, grouped, gpc>>

\* One iteration on an 'o' record close to the current frame: merged.
GroupMerge ==
    /\ gpc = "run"
    /\ Len(event_records) < MaxEvents
    /\ \E ev \in InputEvents(Len(event_records) + 1) :
         /\ ev.event_type = "o"
         /\ CloseEnough(TimeBetweenEvents(ev))
         /\ event_records' = Append(event_records, ev)
         /\ current_string' = MergedString(current_string, ev)
    /\ UNCHANGED <<zvars, svars, tvars, rvars, ovars, avars, dvars, bvars, cvars, hvars, yielded>>
    /\ UNCHANGED <<min_rec_duration, max_rec_duration, last_rec_duration,
                   current_time, dropped_time, grouped, gpc>>

\* One iteration on an 'o' record far enough from the current frame: the
\* current frame is yielded and a new one starts with this record's data.
GroupYield ==
    /\ gpc = "run"
    /\ Len(event_records) < MaxEvents
    /\ \E ev \in InputEvents(Len(event_records) + 1) :
         LET tbe == TimeBetweenEvents(ev) IN
         /\ ev.event_type = "o"
         /\ ~CloseEnough(tbe)
         /\ event_records' = Append(event_records, ev)
         /\ dropped_time' = DroppedAfter(tbe)
         /\ grouped' = Append(grouped,
                AsciiCastV2Event(current_time, "o", current_string,
                                 RecordDuration(tbe)))
         /\ current_string' = ev.event_data
         /\ current_time' = CurrentTimeAfter(tbe)
    /\ UNCHANGED <<zvars, svars, tvars, rvars, ovars, avars, dvars, bvars, cvars, hvars, yielded>>
    /\ UNCHANGED <<min_rec_duration, max_rec_duration, last_rec_duration, gpc>>

\* The input is exhausted: the last frame is yielded with last_rec_duration.
GroupLast ==
    /\ gpc = "run"
    /\ grouped' = Append(grouped,
           AsciiCastV2Event(current_time, "o", current_string, LastDuration))
    /\ gpc' = "done"
    /\ UNCHANGED <<zvars, svars, tvars, rvars, ovars, avars, dvars, bvars, cvars, hvars, yielded>>
    /\ UNCHANGED <<min_rec_duration, max_rec_duration, last_rec_duration,
                   event_records, current_string, current_time, dropped_time>>

GroupNext == GroupSkip \/ GroupMerge \/ GroupYield \/ GroupLast

SpecGroupByTime == GroupInit /\ [][GroupNext]_vars

(***************************************************************************)
(* termtosvg/asciicast.py : to_json_line and from_json_line                *)
(***************************************************************************)
\* A JSON object: its members in the order written; a JSON array.
JObject(members) == [object |-> members]
JArray(items) == [array |-> items]
Member(key, value) == [key |-> key, value |-> value]

\* dict.get(key): the value of the last member with the key, None when
\* there is none (json.loads keeps the last of duplicated keys and reads
\* null as None).
Get(members, key) ==
    IF \E i \in 1..Len(members) : members[i].key = key
    THEN members[CHOOSE i \in 1..Len(members) :
                    /\ members[i].key = key
                    /\ \A j \in (i + 1)..Len(members) : members[j].key # key].value
    ELSE JNone

\* A palette of n colours, all valid.
Palette(n) == [i \in 1..n |-> i]

\* AsciiCastV2Theme.__new__: a palette of 16 valid colours or more is kept
\* as it is, another one is cut down to its first 8 colours.
PaletteKept(palette) ==
    IF Len(palette) >= 16 THEN palette ELSE SubSeq(palette, 1, 8)

\* AsciiCastV2Theme(fg, bg, palette), colours being valid
AsciiCastV2Theme(fg, bg, palette) ==
    [theme |-> [fg |-> fg, bg |-> bg, palette |-> PaletteKept(palette)]]

AsciiCastV2Header(version, width, height, theme, idle_time_limit) ==
    [version |-> version, width |-> width, height |-> height,
     theme |-> theme, idle_time_limit |-> idle_time_limit]

\* self.theme._asdict()
ThemeAsDict(theme) ==
    JObject(<<Member("fg", theme.theme.fg), Member("bg", theme.theme.bg),
              Member("palette", theme.theme.palette)>>)

\* AsciiCastV2Header.to_json_line: the members in the order of the fields,
\* without theme and idle_time_limit when they are None.
HeaderToJsonLine(header) ==
    JObject(<<Member("version", header.version),
              Member("width", header.width),
              Member("height", header.height)>>
            \o (IF header.theme # JNone
                THEN <<Member("theme", ThemeAsDict(header.theme))>>
                ELSE <<>>)
            \o (IF header.idle_time_limit # JNone
                THEN <<Member("idle_time_limit", header.idle_time_limit)>>
                ELSE <<>>))

\* AsciiCastV2Theme(**filtered_attributes['theme'])
ThemeFromDict(value) ==
    AsciiCastV2Theme(Get(value.object, "fg"), Get(value.object, "bg"),
                     Get(value.object, "palette"))

\* AsciiCastV2Header.from_json_line: the attributes named by the fields,
\* None for a missing one; other members are not read.
HeaderFromJsonLine(line) ==
    AsciiCastV2Header(Get(line.object, "version"),
                      Get(line.object, "width"),
                      Get(line.object, "height"),
                      IF Get(line.object, "theme") # JNone
                      THEN ThemeFromDict(Get(line.object, "theme"))
                      ELSE JNone,
                      Get(line.object, "idle_time_limit"))

\* AsciiCastV2Event.to_json_line: [self.time, self.event_type,
\* self.event_data]
EventToJsonLine(event) ==
    JArray(<<event.time, event.event_type, event.event_data>>)

\* Mutant: the type and the data of the event are taken in the other order.
EventFromJsonLine_Swapped(line) ==
    AsciiCastV2Event(line.array[1], line.array[3], line.array[2], JNone)

\* AsciiCastV2Event.from_json_line: cls(time, event_type, event_data, None)
EventFromJsonLine(line) ==
    AsciiCastV2Event(line.array[1], line.array[2], line.array[3], JNone)

IsHeader(record) == "version" \in DOMAIN record

ToJsonLine(record) ==
    IF IsHeader(record) THEN HeaderToJsonLine(record)
    ELSE EventToJsonLine(record)

\* AsciiCastV2Record.from_json_line: a dict is a header, a list an event
FromJsonLine2(line) ==
    IF "object" \in DOMAIN line THEN HeaderFromJsonLine(line)
    ELSE EventFromJsonLine(line)

JsonThemes ==
    {JNone} \cup { AsciiCastV2Theme(JStr("#000000"), JStr("#AAAAAA"), Palette(n)) :
                     n \in {8, 9, 16, 17} }

\* The valid headers and the events without duration.
JsonRecords ==
    { AsciiCastV2Header(JInt(2), JInt(w), JInt(53), theme, idle) :
        w \in {80, 212}, theme \in JsonThemes,
        idle \in {JNone, JInt(0), JInt(42), JFloat("1.234")} }
    \cup { AsciiCastV2Event(t, JStr(type), JStr(data), JNone) :
             t \in {JInt(2), JFloat("0.010303")}, type \in {"o", "i"},
             data \in {"", "ls"} }

\* Header lines as a recorder writes them: the members in the order of the
\* fields, theme and idle_time_limit present or not, a palette of 8 or of
\* at least 16 colours.
CanonicalHeaderLines ==
    { JObject(<<Member("version", JInt(2)), Member("width", JInt(w)),
                Member("height", JInt(53))>> \o theme \o idle) :
        w \in {80, 212},
        theme \in {<<>>} \cup
            { <<Member("theme",
                  JObject(<<Member("fg", JStr("#000000")),
                            Member("bg", JStr("#AAAAAA")),
                            Member("palette", Palette(n))>>))>> :
                n \in {8, 16, 17} },
        idle \in {<<>>} \cup
            { <<Member("idle_time_limit", v)>> :
                v \in {JInt(0), JInt(42), JFloat("1.234")} } }

CanonicalEventLines ==
    { JArray(<<t, JStr(type), JStr(data)>>) :
        t \in {JInt(2), JFloat("0.010303")}, type \in {"o", "i"},
        data \in {"", "ls"} }

CanonicalLines == CanonicalHeaderLines \cup CanonicalEventLines

\* The member asciinema adds to its headers, unknown to termtosvg.
Timestamp == Member("timestamp", JInt(123456798))

\* Header lines with a member that is not a field, in any position.
LinesWithUnknown ==
    UNION { { JObject(SubSeq(line.object, 1, k) \o <<Timestamp>>
                      \o SubSeq(line.object, k + 1, Len(line.object))) :
                k \in 0..Len(line.object) } :
            line \in CanonicalHeaderLines }

JsonInit ==
    /\ \/ json_in \in JsonRecords /\ jpc = "record"
       \/ json_in \in CanonicalLines \cup LinesWithUnknown /\ jpc = "line"
    /\ json_mid = JNone
    /\ json_out = JNone
    /\ ScreenInit /\ ObserversInit /\ GroupIdle /\ ScreenEventsIdle
    /\ ReplayIdle /\ AnimationIdle /\ DefinitionsIdle /\ BinderIdle
    /\ FromPyteIdle /\ RecordsIdle
    /\ FeedIdle /\ V1Idle /\ TerminalIdle /\ TimingsIdle /\ RunsIdle
    /\ CaptureIdle

\* record.to_json_line(), on the record given or on the record read
ToJsonLineCall ==
    /\ jpc \in {"record", "read"}
    /\ IF jpc = "record"
       THEN /\ json_mid' = ToJsonLine(json_in)
            /\ jpc' = "written"
            /\ UNCHANGED json_out
       ELSE /\ json_out' = ToJsonLine(json_mid)
            /\ jpc' = "rewritten"
            /\ UNCHANGED json_mid
    /\ UNCHANGED <<corevars, evars, wvars, mvars, ivars, nvars, pvars,
                   json_in>>

\* AsciiCastV2Record.from_json_line(line), on the line given or on the
\* line written
FromJsonLineCall ==
    /\ jpc \in {"line", "written"}
    /\ IF jpc = "line"
       THEN /\ json_mid' = FromJsonLine2(json_in)
            /\ jpc' = "read"
            /\ UNCHANGED json_out
       ELSE /\ json_out' = FromJsonLine2(json_mid)
            /\ jpc' = "reread"
            /\ UNCHANGED json_mid
    /\ UNCHANGED <<corevars, evars, wvars, mvars, ivars, nvars, pvars,
                   json_in>>

JsonNext == ToJsonLineCall \/ FromJsonLineCall

SpecJson == JsonInit /\ [][JsonNext]_vars

(***************************************************************************)
(* termtosvg/asciicast.py : _read_v1_records                               *)
(***************************************************************************)
\* The entries of stdout: [delay, data]
V1Entries == [delta : 0..MaxDelta, data : {"a", "b"}]

\* Valid asciicast v1 recordings
V1Recordings ==
    [version : {1}, width : {80}, height : {24, 53},
     stdout : UNION { [1..n -> V1Entries] : n \in 0..MaxStdout }]

\* Mutant: the delay of the entry is taken as its time.
V1Time_Delta(t, time_elapsed) == time_elapsed

\* time += time_elapsed
V1Time(t, time_elapsed) == t + time_elapsed

V1Init ==
    /\ v1_data \in V1Recordings
    /\ v1_records = <<>>
    /\ v1_time = 0
    /\ wpc = "start"
    /\ ScreenInit /\ ObserversInit /\ GroupIdle /\ ScreenEventsIdle
    /\ ReplayIdle /\ AnimationIdle /\ DefinitionsIdle /\ BinderIdle
    /\ FromPyteIdle /\ RecordsIdle
    /\ FeedIdle /\ JsonIdle /\ TerminalIdle /\ TimingsIdle /\ RunsIdle
    /\ CaptureIdle

\* yield AsciiCastV2Header(2, json_dict['width'], json_dict['height'],
\*                         None, None); time = 0
V1Header ==
    /\ wpc = "start"
    /\ v1_records' = <<AsciiCastV2Header(2, v1_data.width, v1_data.height,
                                         None, None)>>
    /\ v1_time' = 0
    /\ wpc' = "events"
    /\ UNCHANGED <<corevars, evars, jvars, mvars, ivars, nvars, pvars,
                   v1_data>>

\* One iteration of `for event in json_dict['stdout']`
V1Event ==
    /\ wpc = "events"
    /\ Len(v1_records) <= Len(v1_data.stdout)
    /\ \E event \in {v1_data.stdout[Len(v1_records)]} :
         /\ v1_time' = V1Time(v1_time, event.delta)
         /\ v1_records' =
               Append(v1_records,
                      AsciiCastV2Event(V1Time(v1_time, event.delta), "o",
                                       event.data, None))
    /\ UNCHANGED <<corevars, evars, jvars, mvars, ivars, nvars, pvars,
                   v1_data, wpc>>

\* stdout is exhausted: the generator returns.
V1End ==
    /\ wpc = "events"
    /\ Len(v1_records) > Len(v1_data.stdout)
    /\ wpc' = "done"
    /\ UNCHANGED <<corevars, evars, jvars, mvars, ivars, nvars, pvars,
                   v1_data, v1_records, v1_time>>

V1Next == V1Header \/ V1Event \/ V1End

SpecV1 == V1Init /\ [][V1Next]_vars

(***************************************************************************)
(* termtosvg/anim.py : ConsecutiveWithSameAttributes, _make_rect_tag,      *)
(*                     _render_line_bg_colors                              *)
(***************************************************************************)
\* The texts of the cells: a one-column character, "W" standing for a
\* two-column character, and the empty text of the column that follows a
\* two-column character.
BgTexts == {"a", "W", ""}

\* wcwidth of a text of BgTexts
Wcwidth(text) == IF text = "" THEN 0 ELSE IF text = "W" THEN 2 ELSE 1

BgCells == [text : BgTexts, background_color : {"background", "red", "blue"}]

\* screen_line: a mapping from some of the columns to cells
BgLines == UNION { [cols -> BgCells] : cols \in SUBSET (0..MaxColumn) }

\* non_default_bg_cells: the (column, cell) pairs in column order
NonDefaultBgCells(screen_line) ==
    LET columns == SortedRows({ c \in DOMAIN screen_line :
                      screen_line[c].background_color # "background" })
    IN [i \in 1..Len(columns) |-> <<columns[i], screen_line[columns[i]]>>]

\* ConsecutiveWithSameAttributes.__init__
NewKey ==
    [group_index |-> JNone, last_index |-> JNone,
     last_key_attributes |-> JNone]

\* ConsecutiveWithSameAttributes.__call__ with attributes
\* ['background_color']: the fields after the call
KeyCalled(self, arg) ==
    LET index == arg[1]
        key_attributes == [background_color |-> arg[2].background_color]
    IN [group_index |->
            IF \/ self.last_index # JInt(index - 1)
               \/ self.last_key_attributes # key_attributes
            THEN JInt(index) ELSE self.group_index,
        last_index |-> JInt(index),
        last_key_attributes |-> key_attributes]

\* wcswidth(''.join(t[1].text for t in group))
RECURSIVE Wcswidth(_)
Wcswidth(group) ==
    IF group = <<>> THEN 0
    ELSE Wcwidth(Head(group)[2].text) + Wcswidth(Tail(group))

\* _make_rect_tag
MakeRectTag(column, length, background_color) ==
    [x |-> column * CELL_WIDTH,
     width |-> length * CELL_WIDTH,
     class |-> background_color]

\* itertools.groupby: the indices at which a new key starts
GroupStarts(keys) ==
    SortedRows({ i \in 1..Len(keys) : i = 1 \/ keys[i] # keys[i - 1] })

\* The last index of the group that starts at index i
GroupEnd(keys, i) ==
    CHOOSE e \in i..Len(keys) :
        /\ \A k \in i..e : keys[k] = keys[i]
        /\ e < Len(keys) => keys[e + 1] # keys[i]

\* rect_tags of _render_line_bg_colors
RectTags(cells, keys) ==
    LET starts == GroupStarts(keys)
    IN [g \in 1..Len(starts) |->
          MakeRectTag(keys[starts[g]][1].int,
                      Wcswidth(SubSeq(cells, starts[g],
                                      GroupEnd(keys, starts[g]))),
                      keys[starts[g]][2].background_color)]

RunsInit ==
    /\ bg_line \in BgLines
    /\ key_state = NewKey
    /\ bg_keys = <<>>
    /\ rect_tags = <<>>
    /\ npc = "grouping"
    /\ ScreenInit /\ ObserversInit /\ GroupIdle /\ ScreenEventsIdle
    /\ ReplayIdle /\ AnimationIdle /\ DefinitionsIdle /\ BinderIdle
    /\ FromPyteIdle /\ RecordsIdle
    /\ FeedIdle /\ JsonIdle /\ V1Idle /\ TerminalIdle /\ TimingsIdle
    /\ CaptureIdle

\* groupby asks the key of the next cell
KeyCall ==
    /\ npc = "grouping"
    /\ Len(bg_keys) < Len(NonDefaultBgCells(bg_line))
    /\ \E self \in {KeyCalled(key_state,
                       NonDefaultBgCells(bg_line)[Len(bg_keys) + 1])} :
         /\ key_state' = self
         /\ bg_keys' = Append(bg_keys,
                              <<self.group_index, self.last_key_attributes>>)
    /\ UNCHANGED <<corevars, evars, jvars, wvars, mvars, ivars, pvars,
                   bg_line, rect_tags, npc>>

\* The groups are exhausted: one rect tag per group is returned.
RenderLineBgColors ==
    /\ npc = "grouping"
    /\ Len(bg_keys) = Len(NonDefaultBgCells(bg_line))
    /\ rect_tags' = RectTags(NonDefaultBgCells(bg_line), bg_keys)
    /\ npc' = "done"
    /\ UNCHANGED <<corevars, evars, jvars, wvars, mvars, ivars, pvars,
                   bg_line, key_state, bg_keys>>

RunsNext == KeyCall \/ RenderLineBgColors

SpecRuns == RunsInit /\ [][RunsNext]_vars

(***************************************************************************)
(* termtosvg/term.py : TerminalMode                                        *)
(***************************************************************************)
\* struct winsize: ws_row, ws_col, ws_xpixel, ws_ypixel
Winsizes ==
    [lines : 1..MaxWinsize, columns : 1..MaxWinsize,
     xpixel : {0, CELL_WIDTH}, ypixel : {0, CELL_HEIGHT}]

TerminalModes == {"cooked", "cbreak", "raw"}

\* struct.pack("HHHH", lines, columns, 0, 0)
PackedSize(lines, columns) ==
    [lines |-> lines, columns |-> columns, xpixel |-> 0, ypixel |-> 0]

\* __enter__: tty.tcgetattr and os.get_terminal_size fail on a descriptor
\* that is not a terminal, and the fields stay None.
Entered(fd, mode, size) ==
    [mode |-> IF fd = "tty" THEN JStr(mode) ELSE JNone,
     ttysize |-> IF fd = "tty"
                 THEN [packed |-> PackedSize(size.lines, size.columns)]
                 ELSE JNone]

\* Mutant: __exit__ leaves the mode as it is.
ExitMode_Kept(self, mode) == mode

\* __exit__: tty.tcsetattr(self.fileno, tty.TCSAFLUSH, self.mode)
ExitMode(self, mode) ==
    IF self.mode # JNone THEN self.mode.str ELSE mode

\* __exit__: fcntl.ioctl(self.fileno, termios.TIOCSWINSZ, self.ttysize)
ExitSize(self, size) ==
    IF self.ttysize # JNone THEN self.ttysize.packed ELSE size

TerminalInit ==
    /\ tm_fd \in {"tty", "pipe"}
    /\ term_mode \in {"cooked", "cbreak"}
    /\ term_size \in Winsizes
    /\ tm_self = [mode |-> JNone, ttysize |-> JNone]
    /\ tm_entry = <<>>
    /\ mpc = "created"
    /\ ScreenInit /\ ObserversInit /\ GroupIdle /\ ScreenEventsIdle
    /\ ReplayIdle /\ AnimationIdle /\ DefinitionsIdle /\ BinderIdle
    /\ FromPyteIdle /\ RecordsIdle
    /\ FeedIdle /\ JsonIdle /\ V1Idle /\ TimingsIdle /\ RunsIdle
    /\ CaptureIdle

\* with TerminalMode(fileno): __enter__
TerminalEnter ==
    /\ mpc = "created"
    /\ tm_self' = Entered(tm_fd, term_mode, term_size)
    /\ tm_entry' = [mode |-> term_mode, size |-> term_size]
    /\ mpc' = "inside"
    /\ UNCHANGED <<corevars, evars, jvars, wvars, ivars, nvars, pvars,
                   tm_fd, term_mode, term_size>>

\* Inside the block the mode of the terminal is changed (tty.setraw).
TerminalSetMode ==
    /\ mpc = "inside"
    /\ tm_fd = "tty"
    /\ \E mode \in TerminalModes :
         /\ mode # term_mode
         /\ term_mode' = mode
    /\ UNCHANGED <<corevars, evars, jvars, wvars, ivars, nvars, pvars,
                   tm_fd, term_size, tm_self, tm_entry, mpc>>

\* Inside the block the window is resized (TIOCSWINSZ, or by the user).
TerminalResize ==
    /\ mpc = "inside"
    /\ tm_fd = "tty"
    /\ \E size \in Winsizes :
         /\ size # term_size
         /\ term_size' = size
    /\ UNCHANGED <<corevars, evars, jvars, wvars, ivars, nvars, pvars,
                   tm_fd, term_mode, tm_self, tm_entry, mpc>>

\* __exit__, whatever exc_type is
TerminalExit(exit) ==
    /\ mpc = "inside"
    /\ term_size' = ExitSize(tm_self, term_size)
    /\ term_mode' = ExitMode(tm_self, term_mode)
    /\ mpc' = exit
    /\ UNCHANGED <<corevars, evars, jvars, wvars, ivars, nvars, pvars,
                   tm_fd, tm_self, tm_entry>>

\* The block ends normally.
TerminalExitNormally == TerminalExit("exited")

\* The block ends through an exception, which __exit__ lets through.
TerminalExitOnException == TerminalExit("raised")

TerminalNext ==
    \/ TerminalEnter
    \/ TerminalSetMode
    \/ TerminalResize
    \/ TerminalExitNormally
    \/ TerminalExitOnException

SpecTerminal == TerminalInit /\ [][TerminalNext]_vars

(***************************************************************************)
(* termtosvg/term.py : _capture_output, called by _record                  *)
(***************************************************************************)
\* select.select(rlist, [], xlist): the descriptors of rlist that are
\* ready, in the order of rlist. input_fileno is ready when it has data,
\* is at end-of-file or fails; master_fd is ready when the PTY holds
\* output or the process has exited.
InputReady == stdin_state # "open"
MasterReady == pty_out # <<>> \/ proc_state = "exited"
ReadyFds ==
    (IF InputReady THEN <<"input_fileno">> ELSE <<>>)
        \o (IF MasterReady THEN <<"master_fd">> ELSE <<>>)

CaptureInit ==
    /\ proc_written = 0
    /\ proc_state = "running"
    /\ pty_out = <<>>
    /\ stdin_state \in {"open", "eof"}
    /\ cap_rfds = <<>>
    /\ cap_xfds = {}
    /\ cap_data = <<>>
    /\ cap_yielded = <<>>
    /\ cap_output = <<>>
    /\ ppc = "select"
    /\ ScreenInit /\ ObserversInit /\ GroupIdle /\ ScreenEventsIdle
    /\ ReplayIdle /\ AnimationIdle /\ DefinitionsIdle /\ BinderIdle
    /\ FromPyteIdle /\ RecordsIdle
    /\ FeedIdle /\ JsonIdle /\ V1Idle /\ TerminalIdle /\ TimingsIdle
    /\ RunsIdle

\* The recorded process writes its next chunk to the PTY; it cannot once
\* _record has closed master_fd.
ProcessWrite ==
    /\ proc_state = "running"
    /\ ppc # "returned"
    /\ proc_written < MaxChunks
    /\ proc_written' = proc_written + 1
    /\ pty_out' = Append(pty_out, proc_written + 1)
    /\ UNCHANGED <<corevars, evars, jvars, wvars, mvars, ivars, nvars,
                   proc_state, stdin_state, cap_rfds, cap_xfds, cap_data,
                   cap_yielded, cap_output, ppc>>

\* The recorded process exits.
ProcessExit ==
    /\ proc_state = "running"
    /\ proc_state' = "exited"
    /\ UNCHANGED <<corevars, evars, jvars, wvars, mvars, ivars, nvars,
                   proc_written, pty_out, stdin_state, cap_rfds, cap_xfds,
                   cap_data, cap_yielded, cap_output, ppc>>

\* The user types, closes the input, or the input fails.
StdinEvent ==
    /\ stdin_state = "open"
    /\ ppc # "returned"
    /\ stdin_state' \in {"data", "eof", "error"}
    /\ UNCHANGED <<corevars, evars, jvars, wvars, mvars, ivars, nvars,
                   proc_written, proc_state, pty_out, cap_rfds, cap_xfds,
                   cap_data, cap_yielded, cap_output, ppc>>

\* rfds, _, xfds = select.select(rlist, [], xlist)
CaptureSelect ==
    /\ ppc = "select"
    /\ ReadyFds # <<>>
    /\ cap_rfds' = ReadyFds
    /\ ppc' = "for"
    /\ UNCHANGED <<corevars, evars, jvars, wvars, mvars, ivars, nvars,
                   proc_written, proc_state, pty_out, stdin_state, cap_xfds,
                   cap_data, cap_yielded, cap_output>>

\* for fd in rfds, fd == input_fileno: the data read is written to
\* master_fd; on OSError or end-of-file the descriptor is added to xfds.
CaptureInput ==
    /\ ppc = "for"
    /\ cap_rfds # <<>>
    /\ Head(cap_rfds) = "input_fileno"
    /\ cap_rfds' = Tail(cap_rfds)
    /\ IF stdin_state = "data"
       THEN stdin_state' = "open" /\ cap_xfds' = cap_xfds
       ELSE stdin_state' = stdin_state
            /\ cap_xfds' = cap_xfds \cup {"input_fileno"}
    /\ UNCHANGED <<corevars, evars, jvars, wvars, mvars, ivars, nvars,
                   proc_written, proc_state, pty_out, cap_data,
                   cap_yielded, cap_output, ppc>>

\* for fd in rfds, fd == master_fd: os.read returns some of the output
\* the PTY holds, which is yielded; with no output left the read fails
\* or returns nothing and the descriptor is added to xfds.
CaptureMaster ==
    /\ ppc = "for"
    /\ cap_rfds # <<>>
    /\ Head(cap_rfds) = "master_fd"
    /\ IF pty_out # <<>>
       THEN \E n \in 1..Len(pty_out) :
              /\ cap_data' = SubSeq(pty_out, 1, n)
              /\ pty_out' = SubSeq(pty_out, n + 1, Len(pty_out))
              /\ cap_yielded' = cap_yielded \o SubSeq(pty_out, 1, n)
              /\ ppc' = "write"
              /\ UNCHANGED <<cap_rfds, cap_xfds>>
       ELSE /\ cap_xfds' = cap_xfds \cup {"master_fd"}
            /\ cap_rfds' = Tail(cap_rfds)
            /\ UNCHANGED <<pty_out, cap_data, cap_yielded, ppc>>
    /\ UNCHANGED <<corevars, evars, jvars, wvars, mvars, ivars, nvars,
                   proc_written, proc_state, stdin_state, cap_output>>

\* The caller resumes the generator: while data: os.write(write_fileno, data)
CaptureWrite ==
    /\ ppc = "write"
    /\ cap_output' = cap_output \o cap_data
    /\ cap_data' = <<>>
    /\ cap_rfds' = Tail(cap_rfds)
    /\ ppc' = "for"
    /\ UNCHANGED <<corevars, evars, jvars, wvars, mvars, ivars, nvars,
                   proc_written, proc_state, pty_out, stdin_state, cap_xfds,
                   cap_yielded>>

\* The for loop is over: `while not xfds` goes on or the generator
\* returns, and _record closes master_fd.
CaptureLoop ==
    /\ ppc = "for"
    /\ cap_rfds = <<>>
    /\ ppc' = IF cap_xfds = {} THEN "select" ELSE "returned"
    /\ UNCHANGED <<corevars, evars, jvars, wvars, mvars, ivars, nvars,
                   proc_written, proc_state, pty_out, stdin_state, cap_rfds,
                   cap_xfds, cap_data, cap_yielded, cap_output>>

CaptureNext ==
    \/ ProcessWrite
    \/ ProcessExit
    \/ StdinEvent
    \/ CaptureSelect
    \/ CaptureInput
    \/ CaptureMaster
    \/ CaptureWrite
    \/ CaptureLoop

SpecCapture == CaptureInit /\ [][CaptureNext]_vars

\* The recorder and the recorded process are both scheduled: a step of
\* either that stays possible is eventually taken. Nothing is assumed of
\* the input.
CaptureFairness ==
    /\ WF_vars(ProcessWrite)
    /\ WF_vars(CaptureSelect)
    /\ WF_vars(CaptureInput)
    /\ WF_vars(CaptureMaster)
    /\ WF_vars(CaptureWrite)
    /\ WF_vars(CaptureLoop)

SpecCaptureFair == CaptureInit /\ [][CaptureNext]_vars /\ CaptureFairness

(***************************************************************************)
(* termtosvg/anim.py : _render_animation (timings), _embed_css,            *)
(*                     _embed_waapi (keyframes)                            *)
(***************************************************************************)
FRAME_CELL_SPACING == 1

\* The frames of a recording: the first one at time 0, each of the others
\* at the end of the one before; a duration may be 0.
RECURSIVE FramesOf(_, _)
FramesOf(durations, start) ==
    IF durations = <<>> THEN <<>>
    ELSE <<[time |-> start, duration |-> Head(durations)]>>
            \o FramesOf(Tail(durations), start + Head(durations))

TimedFrames ==
    { FramesOf(durations, 0) :
        durations \in UNION { [1..n -> 0..MaxDur] : n \in 0..MaxTimed } }

\* offset = frame_count * (h + h % 2) * cell_height
FrameOffset(screen_height, count) ==
    LET h == screen_height + FRAME_CELL_SPACING
    IN count * (h + (h % 2)) * CELL_HEIGHT

\* Mutant: the first frame of a time keeps its offset.
TimingsSet_First(table, key, offset) ==
    IF key \in DOMAIN table THEN table
    ELSE [t \in DOMAIN table \cup {key} |->
            IF t = key THEN offset ELSE table[t]]

\* timings[frame.time] = -offset
TimingsSet(table, key, offset) ==
    [t \in DOMAIN table \cup {key} |->
        IF t = key THEN offset ELSE table[t]]

\* '{:.3f}'.format(scale * time / animation_duration), in thousandths
Format3f(scale, key, duration) ==
    (2 * 1000 * scale * key + duration) \div (2 * duration)

\* transforms of _embed_css
CssTransforms(table, duration) ==
    LET times == SortedRows(DOMAIN table)
    IN [k \in 1..Len(times) |->
          [time |-> JInt(Format3f(100, times[k], duration)),
           offset |-> table[times[k]]]]
       \o (IF times = <<>> THEN <<>>
           ELSE <<[time |-> JInt(100 * 1000),
                   offset |-> table[times[Len(times)]]]>>)

\* transforms of _embed_waapi: the first and the closing one have no
\* offset property
WaapiTransforms(table, duration) ==
    LET times == SortedRows(DOMAIN table)
    IN [k \in 1..Len(times) |->
          [time |-> IF k = 1 THEN JNone
                    ELSE JInt(Format3f(1, times[k], duration)),
           offset |-> table[times[k]]]]
       \o (IF times = <<>> THEN <<>>
           ELSE <<[time |-> JNone, offset |-> table[times[Len(times)]]]>>)

TimingsInit ==
    /\ tf_frames \in TimedFrames
    /\ tf_height \in {1, 2}
    /\ tf_type \in {"css", "waapi"}
    /\ timings = <<>>
    /\ animation_duration = JNone
    /\ keyframes = <<>>
    /\ tf_status = "ok"
    /\ tf_count = 0
    /\ ipc = "frames"
    /\ ScreenInit /\ ObserversInit /\ GroupIdle /\ ScreenEventsIdle
    /\ ReplayIdle /\ AnimationIdle /\ DefinitionsIdle /\ BinderIdle
    /\ FromPyteIdle /\ RecordsIdle
    /\ FeedIdle /\ JsonIdle /\ V1Idle /\ TerminalIdle /\ RunsIdle
    /\ CaptureIdle

\* One iteration of `for frame_count, frame in enumerate(frames)`
TimingsFrame ==
    /\ ipc = "frames"
    /\ tf_count < Len(tf_frames)
    /\ \E frame \in {tf_frames[tf_count + 1]} :
         /\ animation_duration' = JInt(frame.time + frame.duration)
         /\ timings' = TimingsSet(timings, frame.time,
                                  -FrameOffset(tf_height, tf_count))
    /\ tf_count' = tf_count + 1
    /\ UNCHANGED <<corevars, evars, jvars, wvars, mvars, nvars, pvars,
                   tf_frames, tf_height, tf_type, keyframes, tf_status,
                   ipc>>

\* _add_animation with a template of type css: _embed_css
EmbedCss ==
    /\ ipc = "frames"
    /\ tf_count = Len(tf_frames)
    /\ tf_type = "css"
    /\ IF animation_duration = JNone
       THEN keyframes' = <<>> /\ tf_status' = "ok"
       ELSE IF animation_duration = JInt(0)
       THEN keyframes' = <<>> /\ tf_status' = "ValueError"
       ELSE /\ keyframes' = CssTransforms(timings, animation_duration.int)
            /\ tf_status' = "ok"
    /\ ipc' = "done"
    /\ UNCHANGED <<corevars, evars, jvars, wvars, mvars, nvars, pvars,
                   tf_frames, tf_height, tf_type, timings,
                   animation_duration, tf_count>>

\* _add_animation with a template of type waapi: _embed_waapi
\* (`if animation_duration and timings`)
EmbedWaapi ==
    /\ ipc = "frames"
    /\ tf_count = Len(tf_frames)
    /\ tf_type = "waapi"
    /\ IF animation_duration \notin {JNone, JInt(0)} /\ DOMAIN timings # {}
       THEN keyframes' = WaapiTransforms(timings, animation_duration.int)
       ELSE keyframes' = <<>>
    /\ tf_status' = "ok"
    /\ ipc' = "done"
    /\ UNCHANGED <<corevars, evars, jvars, wvars, mvars, nvars, pvars,
                   tf_frames, tf_height, tf_type, timings,
                   animation_duration, tf_count>>

TimingsNext == TimingsFrame \/ EmbedCss \/ EmbedWaapi

SpecTimings == TimingsInit /\ [][TimingsNext]_vars

(***************************************************************************)
(* Claims about the time coalescer                                         *)
(***************************************************************************)
IsFinalFrame(i) == gpc = "done" /\ i = Len(grouped)

C4_FramesTile ==
    \A i \in 1..(Len(grouped) - 1) :
       grouped[i].time + grouped[i].duration = grouped[i + 1].time

\* C4 witness: three frames, one of them merged from two records, after an
\* idle gap was capped.
C4_Witness ==
    /\ Len(grouped) >= 3
    /\ dropped_time > 0
    /\ \E i \in 1..Len(grouped) : Len(grouped[i].event_data) >= 2

\* The input record that opened frame i: the first one of its data.
OpenerOf(i) == event_records[Head(grouped[i].event_data)]

\* Time at which frame i was opened: the clock starts at 0 for the first
\* frame, a later frame is opened by the record that closed the one before.
OpeningTime(i) == IF i = 1 THEN 0 ELSE OpenerOf(i).time

\* Idle time in excess of M between the openings of frames j and j + 1.
Excess(j) ==
    LET gap == OpeningTime(j + 1) - OpeningTime(j)
    IN IF max_rec_duration # NoMax /\ gap > max_rec_duration
       THEN gap - max_rec_duration ELSE 0

\* Total excess dropped before frame i.
RECURSIVE DroppedBefore(_)
DroppedBefore(i) == IF i = 1 THEN 0 ELSE DroppedBefore(i - 1) + Excess(i - 1)

CappedFramesLastM ==
    \A i \in 1..(Len(grouped) - 1) :
       Excess(i) > 0 => grouped[i].duration = max_rec_duration

FrameTimesNonDecreasing ==
    \A i \in 1..(Len(grouped) - 1) : grouped[i].time <= grouped[i + 1].time

\* C11 (as stated): a frame closed after a gap longer than M has duration
\* exactly M; the time of every frame is the time of the event that opened
\* it minus the excess dropped before it; frame times are non-decreasing.
C11_TimesOfOpeners ==
    /\ CappedFramesLastM
    /\ \A i \in 1..Len(grouped) :
          grouped[i].event_data # <<>> =>
              grouped[i].time = OpenerOf(i).time - DroppedBefore(i)
    /\ FrameTimesNonDecreasing

\* C11 (amended): as above, but the first frame always has time 0, whatever
\* the time of the first event it holds; every later frame has the time of
\* the event that opened it minus the excess dropped before it.
C11_TimesTranslated ==
    /\ CappedFramesLastM
    /\ \A i \in 1..Len(grouped) :
          grouped[i].time = OpeningTime(i) - DroppedBefore(i)
    /\ FrameTimesNonDecreasing

\* C11 witness: after a capped gap a later frame is opened by an event
\* whose time is larger than the time of the frame.
C11_Witness ==
    /\ gpc = "done"
    /\ Len(grouped) >= 3
    /\ Excess(1) > 0
    /\ grouped[3].time < OpenerOf(3).time
    /\ grouped[3].time = OpenerOf(3).time - dropped_time

IsOutput(ev) == ev.event_type = "o"

\* C13: if the times of the output events fed to the coalescer are not
\* non-decreasing, the coalescer fails with an error instead of merging
\* the late event into a frame.
C13_OutOfOrderRejected ==
    LET outputs == SelectSeq(event_records, IsOutput)
    IN (\E i \in 1..(Len(outputs) - 1) : outputs[i + 1].time < outputs[i].time)
          => gpc = "error"

\* Concatenation of the data of a sequence of records.
RECURSIVE AllData(_)
AllData(records) ==
    IF records = <<>> THEN <<>>
    ELSE Head(records).event_data \o AllData(Tail(records))

\* C14: the concatenation of the data of all emitted frames is the
\* concatenation, in input order, of the data of the events typed 'o'; the
\* frames are those emitted for the input without its other events.
C14_OutputPreserved ==
    gpc = "done" =>
        /\ AllData(grouped) = AllData(SelectSeq(event_records, IsOutput))
        /\ grouped = GroupByTime(SelectSeq(event_records, IsOutput),
                                 <<>>, 0, 0, <<>>)

\* C14 witness: a finished run with an event of another type between two
\* output events merged into one frame.
C14_Witness ==
    /\ gpc = "done"
    /\ Len(event_records) = 3
    /\ event_records[1].event_type = "o"
    /\ event_records[2].event_type = "i"
    /\ event_records[3].event_type = "o"
    /\ \E i \in 1..Len(grouped) : grouped[i].event_data = <<1, 3>>

(***************************************************************************)
(* Claims about screen_events, _redraw_buffer and _feed                    *)
(***************************************************************************)
\* A cell with the colours of the synthetic reverse-video cursor cell (the
\* recorded program itself writes no reverse-video text).
IsOverlayCell(cell) ==
    cell.color = "background" /\ cell.background_color = "foreground"

HasOverlay(line) == \E c \in DOMAIN line : IsOverlayCell(line[c])

\* C2: when the record stream ends, screen_events emits every line still on
\* screen exactly once as a closed event whose duration is the sum of all
\* frame durations minus the line's appearance time, and leaves no pending
\* line; every appearance event has then been followed by exactly one closed
\* event with the same row, content and time.
C2_FinalFlush ==
    /\ ~orphan_closed
    /\ spc = "done" =>
         /\ display_events = <<>>
         /\ unclosed = {}
         /\ \A i \in 1..Len(events) :
               /\ IsClosed(events[i])
               /\ events[i].duration = total_duration - events[i].time

\* C2 witness: the stream ended with two lines on screen that had appeared
\* at different times.
C2_Witness ==
    /\ spc = "done"
    /\ \E i, j \in 1..Len(events) : events[i].time < events[j].time

\* C8: after every frame in which the cursor is visible, the content
\* displayed for the cursor's row has the synthetic reverse-video cell at the
\* cursor's column, also when the row was redrawn in a frame that left the
\* cursor unchanged.
C8_CursorCellShown ==
    (spc = "run" /\ nframes >= 1 /\ ~screen_cursor.hidden) =>
        LET line == displayed[screen_cursor.y] IN
        /\ screen_cursor.x \in DOMAIN line
        /\ line[screen_cursor.x] =
              FromPyte(CursorChar(screen_buffer, screen_cursor))

\* C9: the lines currently displayed contain at most one cursor overlay
\* cell, it sits at the current cursor position, and there is none while the
\* cursor is hidden.
C9_SingleCursorCell ==
    /\ \A r \in Rows : \A c \in DOMAIN displayed[r] :
          IsOverlayCell(displayed[r][c]) =>
             /\ ~screen_cursor.hidden
             /\ r = screen_cursor.y
             /\ c = screen_cursor.x
    /\ \A i \in 1..Len(display_events) :
          \A c \in DOMAIN display_events[i].line :
             IsOverlayCell(display_events[i].line[c]) =>
                /\ ~screen_cursor.hidden
                /\ display_events[i].row = screen_cursor.y
                /\ c = screen_cursor.x

\* C9 witness: a frame closed a line that carried the cursor cell and
\* re-emitted the same row without it, the cursor having left the row or
\* being hidden.
C9_Witness ==
    /\ spc = "run"
    /\ \E i, j \in 1..Len(events) :
          /\ IsClosed(events[i]) /\ HasOverlay(events[i].line)
          /\ ~IsClosed(events[j]) /\ ~HasOverlay(events[j].line)
          /\ events[j].row = events[i].row
          /\ (screen_cursor.hidden \/ screen_cursor.y # events[i].row)

(***************************************************************************)
(* Claims about the line events of both generators                         *)
(***************************************************************************)
StreamEnded == spc = "done" \/ rpc = "done"

\* C1: for every row, the display intervals [time, time+duration) of the
\* closed line events produced for the row (termtosvg screen_events/_feed,
\* vectty replay) are pairwise disjoint, and their union is exactly the set
\* of times during which the row had non-empty content.
C1_RowIntervals ==
    /\ ~overlapping
    /\ \A r \in Rows :
          /\ closed_times[r] \subseteq shown_times[r]
          /\ StreamEnded => closed_times[r] = shown_times[r]

\* C1 witness: at the end of a stream one row had content all the time and
\* another row only part of the time.
C1_Witness ==
    /\ StreamEnded
    /\ total_duration >= 2
    /\ \E r, q \in Rows :
          /\ closed_times[r] = 0..(total_duration - 1)
          /\ closed_times[q] # {}
          /\ closed_times[q] # 0..(total_duration - 1)

(***************************************************************************)
(* Claims about vectty's render_animation                                  *)
(***************************************************************************)
\* C5: in the SVG produced by any render call, whatever render calls
\* preceded it (also on the same AsciiAnimation object), every <use>
\* references the id of a text group present in the <defs> of the same SVG.
C5_UsesResolve ==
    /\ vpc = "saved" => \A i \in 1..Len(dwg_uses) : dwg_uses[i] \in dwg_defs
    /\ kpc = "done" => \A i \in 1..Len(line_ids) : line_ids[i].id \in tree_defs

OnlyLastIsAnimLast ==
    /\ animations[Len(animations)].id = last_animation_id_str
    /\ \A i \in 1..(Len(animations) - 1) :
          animations[i].id # last_animation_id_str

NonDecreasingTime ==
    \A i \in 1..(Len(records_out) - 1) :
        records_out[i].time <= records_out[i + 1].time

SameKeyContiguous ==
    \A i, j \in 1..Len(records_out) :
        (i < j /\ ByTime(records_out[i]) = ByTime(records_out[j])) =>
            \A k \in i..j : ByTime(records_out[k]) = ByTime(records_out[i])

\* C10: the line events yielded by replay arrive in non-decreasing time
\* order, and the events with one (time, duration) pair are contiguous.
C10_SortedByTime == NonDecreasingTime /\ SameKeyContiguous

(***************************************************************************)
(* Claims about termtosvg's definitions                                    *)
(***************************************************************************)
\* The distinct text group strings of the lines rendered so far, in the
\* order of their first occurrence.
RECURSIVE FirstSeen(_, _)
FirstSeen(lines, seen) ==
    IF lines = <<>> THEN seen
    ELSE FirstSeen(Tail(lines),
                   IF \E k \in 1..Len(seen) : seen[k] = Head(lines).str
                   THEN seen ELSE Append(seen, Head(lines).str))

\* C6: within one render the definitions map the distinct text group
\* strings seen so far one-to-one onto g1..gN, the k-th distinct string
\* first encountered having id g{k}; two lines share an id iff their text
\* group strings are equal; an id once given to a line is still the id of
\* its string.
C6_DefinitionsOneToOne ==
    LET seen == FirstSeen(line_ids, <<>>)
    IN /\ DOMAIN definitions = { seen[k] : k \in 1..Len(seen) }
       /\ \A k \in 1..Len(seen) : definitions[seen[k]] = GroupId(k)
       /\ \A i \in 1..Len(line_ids) :
             line_ids[i].id = definitions[line_ids[i].str]
       /\ \A i, j \in 1..Len(line_ids) :
             line_ids[i].id = line_ids[j].id <=> line_ids[i].str = line_ids[j].str

\* C6 witness: the two lines of the first frame got g1 and g2, and a line
\* of the second frame shares the id of a different line with the same
\* text group string.
C6_Witness ==
    /\ frame_count = 2
    /\ Len(line_ids) = 4
    /\ line_ids[1].id = GroupId(1)
    /\ line_ids[2].id = GroupId(2)
    /\ \E i \in 1..2, j \in 3..4 :
          /\ line_ids[i].line # line_ids[j].line
          /\ line_ids[i].id = line_ids[j].id

(***************************************************************************)
(* Claims about resize_template and the render operations                  *)
(***************************************************************************)
\* The width and height added when a template declaring the geometry of
\* `doc` is bound to the geometry g.
DeltaWidth(doc, g) == CELL_WIDTH * (g[1] - doc.columns.n)
DeltaHeight(doc, g) == CELL_HEIGHT * (g[2] - doc.rows.n)

\* C12: after any number of successful bindings of a valid template, the
\* last one to (C, R), the viewBox of the root svg and of the screen svg is
\* the viewBox of the original template with cell_width*(C-Ct) added to its
\* width and cell_height*(R-Rt) to its height, min-x and min-y are those of
\* the original, and the declared geometry is (C, R); hence binding again to
\* (C, R) changes nothing and binding to (C2, R2) gives what binding the
\* original to (C2, R2) gives.
C12_BindingTranslates ==
    (binds >= 1 /\ ResizeStatus(original) = "ok") =>
        /\ template.columns = IntText(geometry[1])
        /\ template.rows = IntText(geometry[2])
        /\ \A el \in {"root", "screen"} :
              LET vb == template[el].viewBox
                  vb0 == original[el].viewBox
              IN /\ Len(vb.tokens) = 4
                 /\ vb.tokens[1] = vb0.tokens[1]
                 /\ vb.tokens[2] = vb0.tokens[2]
                 /\ vb.tokens[3] =
                       IntText(vb0.tokens[3].n + DeltaWidth(original, geometry))
                 /\ vb.tokens[4] =
                       IntText(vb0.tokens[4].n + DeltaHeight(original, geometry))

\* C12 witness: a template was bound, its animation bound again, and the
\* geometry of the second binding is not the one the original declared.
C12_Witness ==
    /\ binds = 2
    /\ bpc = "prepared"
    /\ geometry # <<original.columns.n, original.rows.n>>
    /\ template.screen.viewBox.tokens[1] = IntText(1)

\* C15 (as stated): a failure of resize_template or of _add_animation is a
\* TemplateError.
C15_OnlyTemplateError ==
    [][((RenderPreparation \/ AnimationWrite) /\ bpc' = "failed")
          => bstatus' = "TemplateError"]_vars

\* C16 (as stated): when a render operation has failed, nothing was
\* written.
C16_NothingWrittenOnFailure == bpc = "failed" => written = 0

\* C17 (as stated): a width or height that is not a number is left as it
\* is and the binding succeeds.
C17_NonNumericLeftUnchanged ==
    \A el \in {"root", "screen"}, attr \in {"width", "height"} :
        (binds >= 1 /\ original[el][attr].kind = "other") =>
            /\ bpc # "failed"
            /\ template[el][attr] = original[el][attr]

\* C17 (amended): after the bindings of a valid template a width or height
\* attribute has the delta of the viewBox added, an element without the
\* attribute still has none, and a template with a width or height that is
\* not an integer fails to bind with TemplateError.
C17_ScalableAttributes ==
    \A el \in {"root", "screen"} :
        /\ (binds >= 1 /\ ResizeStatus(original) = "ok") =>
              /\ template[el].width =
                    IF original[el].width = Missing THEN Missing
                    ELSE IntText(original[el].width.n
                                 + DeltaWidth(original, geometry))
              /\ template[el].height =
                    IF original[el].height = Missing THEN Missing
                    ELSE IntText(original[el].height.n
                                 + DeltaHeight(original, geometry))
        /\ \A attr \in {"width", "height"} :
              (binds >= 1 /\ original[el][attr].kind = "other") =>
                  /\ bpc = "failed"
                  /\ bstatus = "TemplateError"
                  /\ template = original

\* C17 witness: a template whose root width is a percentage failed to bind.
C17_Witness ==
    /\ binds = 1
    /\ bpc = "failed"
    /\ original.root.width = OtherText("100%")

(***************************************************************************)
(* Claims about CharacterCell.from_pyte                                    *)
(***************************************************************************)
\* A string of six hexadecimal digits.
IsHex6(text) ==
    Len(text) = 6 /\ \A i \in 1..6 : CharAt(text, i) \in HEX_DIGITS

\* A colour value the claim accepts.
ValidColor(text) == text = "default" \/ IsNamed(text) \/ IsHex6(text)

\* The resolution of a valid foreground the claim describes.
ExpectedText(char) ==
    IF char.fg = "default" THEN "foreground"
    ELSE IF IsNamed(char.fg)
         THEN (IF char.bold /\ NamedIndex(char.fg) <= 8
               THEN COLOR_CLASSES[NamedIndex(char.fg) + 8]
               ELSE COLOR_CLASSES[NamedIndex(char.fg)])
    ELSE "#" \o char.fg

\* The resolution of a valid background the claim describes.
ExpectedBackground(char) ==
    IF char.bg = "default" THEN "background"
    ELSE IF IsNamed(char.bg) THEN COLOR_CLASSES[NamedIndex(char.bg)]
    ELSE "#" \o char.bg

\* C18 (as stated): default maps to foreground / background, a named
\* foreground to its palette class, brightened when the cell is bold and
\* the name is not bright, a named background to its palette class, six
\* hexadecimal digits to #RRGGBB, reverse swaps the two colours after the
\* resolution, and any other colour value is rejected with an error.
C18_ColoursResolved ==
    (cpc # "char") =>
        IF ValidColor(pyte_char.fg) /\ ValidColor(pyte_char.bg)
        THEN /\ cpc = "cell"
             /\ char_cell.color =
                   IF pyte_char.reverse THEN ExpectedBackground(pyte_char)
                   ELSE ExpectedText(pyte_char)
             /\ char_cell.background_color =
                   IF pyte_char.reverse THEN ExpectedText(pyte_char)
                   ELSE ExpectedBackground(pyte_char)
        ELSE cpc = "error"

(***************************************************************************)
(* Claims about the groups screen_events yields                            *)
(***************************************************************************)
\* C19: no group yielded by screen_events after the Configuration is empty,
\* whatever the frame changed.
C19_NoEmptyGroup ==
    \A i \in 1..Len(yielded) : Len(yielded[i]) >= 1

\* C19 witness: the second frame changed neither a row nor the cursor, its
\* group of events is empty and nothing was yielded for it.
C19_Witness ==
    /\ spc = "run"
    /\ nframes = 2
    /\ events = <<>>
    /\ yielded = <<>>

(***************************************************************************)
(* Claims about the first record of a recording                            *)
(***************************************************************************)
\* The record stream starts with a version 2 header.
StartsWithHeader ==
    cast_file[1] = "header" \/ (Len(cast_file) = 1 /\ cast_file[1] = "v1")

\* C20 (as stated): once a stream that does not start with a version 2
\* header has been handed to screen_events and the first record taken and
\* checked, the stream was rejected with AsciiCastError and nothing was
\* produced.
C20_HeaderRequired ==
    (hpc \in {"configured", "failed"} /\ ~StartsWithHeader) =>
        /\ hpc = "failed"
        /\ hstatus = "AsciiCastError"
        /\ produced = 0

(***************************************************************************)
(* Claims relating replay to _feed, and the loop of the SMIL animation     *)
(***************************************************************************)
\* C28: in replay the duration accumulated frame by frame for a pending
\* line is what _feed computes when it closes a line, the clock minus the
\* time of appearance; the lines closed by the final flush carry it too.
C28_DurationsAgree ==
    /\ \A row \in DOMAIN pending_lines :
          pending_lines[row].duration =
              ClosedDuration(replay_time, pending_lines[row])
    /\ rpc = "done" =>
          \A i \in 1..Len(events) :
              events[i].duration = ClosedDuration(replay_time, events[i])

\* C28 witness: after two frames a line that appeared in the first frame
\* is still pending; its duration was extended by the second frame.
C28_Witness ==
    /\ rpc = "run"
    /\ nframes = 2
    /\ \E row \in DOMAIN pending_lines :
          /\ pending_lines[row].time = 0
          /\ pending_lines[row].duration = replay_time
          /\ replay_time >= 2

\* The position of the <animate> whose id is `id` when it was created.
AnimationOf(id) ==
    CHOOSE j \in 1..Len(animations) : AnimationIdStr(j - 1) = id

\* The time at which the i-th <animate> ends in the first loop.
RECURSIVE AnimationEnd(_)
AnimationEnd(i) ==
    LET begin == animations[i].begin
    IN IF begin.start # None
       THEN begin.start + animations[i].dur
       ELSE AnimationEnd(AnimationOf(begin.ref)) + begin.offset
            + animations[i].dur

\* C29 (as stated): in a saved animation the <animate> stamped anim_last
\* ends at the total duration of the recording and no <animate> ends
\* later.
C29_LastEndsAtTotal ==
    (vpc = "saved") =>
        /\ AnimationEnd(Len(animations)) = replay_time
        /\ \A i \in 1..Len(animations) :
              AnimationEnd(i) <= AnimationEnd(Len(animations))

(***************************************************************************)
(* Claims about the effect of one frame on the lines on screen             *)
(***************************************************************************)
\* The rows of the lines of a sequence of events.
RowsOf(evs) == { evs[i].row : i \in 1..Len(evs) }

\* The rows pending after a frame, as the claim gives them.
PendingRowsAfter ==
    { r \in DOMAIN feed_redraw : feed_redraw[r] # <<>> }
    \cup (RowsOf(feed_de) \ DOMAIN feed_redraw)

\* C24: one frame changes the lines on screen only on the rows of its
\* dirty-row map B: afterwards a row is pending iff it is in B with a
\* non-empty line or it is not in B and was pending; a row of B with a
\* non-empty line holds that line with the clock as time of appearance; a
\* row not in B keeps its line and time of appearance and has no event in
\* the frame.  Both for _feed and for the loop body of replay.
C24_FrameEffect ==
    /\ epc = "feed" =>
          /\ RowsOf(feed_de_out) = PendingRowsAfter
          /\ \A i, j \in 1..Len(feed_de_out) :
                i # j => feed_de_out[i].row # feed_de_out[j].row
          /\ \A i \in 1..Len(feed_de_out) :
                IF feed_de_out[i].row \in DOMAIN feed_redraw
                THEN feed_de_out[i] =
                        DisplayLine(feed_de_out[i].row,
                                    feed_redraw[feed_de_out[i].row],
                                    feed_clock, None)
                ELSE \E k \in 1..Len(feed_de) : feed_de[k] = feed_de_out[i]
          /\ RowsOf(feed_events) \subseteq DOMAIN feed_redraw
    /\ epc = "replay" =>
          /\ DOMAIN feed_pending_out = PendingRowsAfter
          /\ \A r \in DOMAIN feed_pending_out :
                IF r \in DOMAIN feed_redraw
                THEN /\ feed_pending_out[r].line = feed_redraw[r]
                     /\ feed_pending_out[r].time = feed_clock
                ELSE \E k \in 1..Len(feed_de) :
                        /\ feed_de[k].row = r
                        /\ feed_de[k].line = feed_pending_out[r].line
                        /\ feed_de[k].time = feed_pending_out[r].time
          /\ RowsOf(feed_events) \subseteq DOMAIN feed_redraw

\* C24 witness: two lines were on screen and the frame redraws one row
\* with an empty line; only the other row is pending afterwards.
C24_Witness ==
    /\ epc = "feed"
    /\ Len(feed_de) = 2
    /\ DOMAIN feed_redraw = {0}
    /\ feed_redraw[0] = <<>>
    /\ RowsOf(feed_de_out) = {1}

\* C25: in the events of one frame every closed event precedes every
\* appearance, and a closed event is a line that was on screen, with the
\* clock minus its time of appearance as duration.
C25_ClosuresFirst ==
    (epc = "feed") =>
        /\ \A i, j \in 1..Len(feed_events) :
              (IsClosed(feed_events[i]) /\ ~IsClosed(feed_events[j])) => i < j
        /\ \A i \in 1..Len(feed_events) :
              IsClosed(feed_events[i]) =>
                 \E k \in 1..Len(feed_de) :
                    /\ feed_de[k].row = feed_events[i].row
                    /\ feed_de[k].line = feed_events[i].line
                    /\ feed_de[k].time = feed_events[i].time
                    /\ feed_events[i].duration = feed_clock - feed_de[k].time

\* C25 witness: a row on screen is redrawn with another line: the frame
\* holds the closure of the old line and the appearance of the new one.
C25_Witness ==
    /\ epc = "feed"
    /\ \E i, j \in 1..Len(feed_events) :
          /\ IsClosed(feed_events[i])
          /\ ~IsClosed(feed_events[j])
          /\ feed_events[i].row = feed_events[j].row
          /\ feed_events[i].line # feed_events[j].line
          /\ feed_events[i].time < feed_clock - 1

(***************************************************************************)
(* Claims about the serialization of asciicast v2 records                  *)
(***************************************************************************)
\* The line without its members that are not fields of a header.
WithoutUnknown(line) ==
    JObject(SelectSeq(line.object, LAMBDA m : m # Timestamp))

\* C21: a valid header or an event without duration written with
\* to_json_line and read back with from_json_line is the same record; a
\* canonical line read and written back is the same line; a header line
\* with an unknown member reads as the line without it.
C21_RoundTrip ==
    /\ jpc = "reread" => json_out = json_in
    /\ (jpc = "rewritten" /\ json_in \in CanonicalLines) => json_out = json_in
    /\ (jpc \in {"read", "rewritten"} /\ json_in \in LinesWithUnknown) =>
          json_mid = FromJsonLine2(WithoutUnknown(json_in))

\* C21 witness: a header with a theme and an idle_time_limit was written
\* and read back.
C21_Witness ==
    /\ jpc = "reread"
    /\ IsHeader(json_in)
    /\ json_in.theme # JNone
    /\ json_in.idle_time_limit = JFloat("1.234")
    /\ Len(json_mid.object) = 5

(***************************************************************************)
(* Claims about the reader of asciicast v1 recordings                      *)
(***************************************************************************)
\* The sum of the delays of the first k entries.
RECURSIVE SumOfDeltas(_, _)
SumOfDeltas(stdout, k) ==
    IF k = 0 THEN 0 ELSE SumOfDeltas(stdout, k - 1) + stdout[k].delta

\* C22: _read_v1_records yields a version 2 header with the width and the
\* height of the recording, then one event of type 'o' per entry of stdout,
\* in order, at the sum of the delays up to its entry, without duration;
\* it yields nothing else.
C22_V1Records ==
    (wpc # "start") =>
        /\ Len(v1_records) <= 1 + Len(v1_data.stdout)
        /\ wpc = "done" => Len(v1_records) = 1 + Len(v1_data.stdout)
        /\ v1_records[1] =
              AsciiCastV2Header(2, v1_data.width, v1_data.height, None, None)
        /\ \A k \in 1..(Len(v1_records) - 1) :
              v1_records[k + 1] =
                  AsciiCastV2Event(SumOfDeltas(v1_data.stdout, k), "o",
                                   v1_data.stdout[k].data, None)

\* C22 witness: a recording of three entries was read to its end, the
\* last event being later than the delay of its entry.
C22_Witness ==
    /\ wpc = "done"
    /\ Len(v1_records) = 4
    /\ v1_records[4].time > v1_data.stdout[3].delta
    /\ v1_data.stdout[1].data # v1_data.stdout[2].data

(***************************************************************************)
(* Claims about the background rectangles of a line                        *)
(***************************************************************************)
\* The columns of the line whose background is not the default
NonDefaultColumns == { c \in DOMAIN bg_line :
                         bg_line[c].background_color # "background" }

\* The keys returned so far describe maximal runs: two neighbouring cells
\* have the same key iff their columns are consecutive and their
\* backgrounds equal, and the key holds the first column of the run.
RunsAreMaximal ==
    LET cells == NonDefaultBgCells(bg_line)
    IN \A i \in 1..Len(bg_keys) :
          /\ bg_keys[i][2].background_color = cells[i][2].background_color
          /\ IF /\ i > 1
                /\ cells[i - 1][1] = cells[i][1] - 1
                /\ cells[i - 1][2].background_color
                      = cells[i][2].background_color
             THEN bg_keys[i] = bg_keys[i - 1]
             ELSE /\ bg_keys[i][1] = JInt(cells[i][1])
                  /\ i > 1 => bg_keys[i] # bg_keys[i - 1]

\* The columns covered by a rect tag
Covered(rect) ==
    { c \in 0..(2 * MaxColumn + 2) :
        /\ rect.x <= c * CELL_WIDTH
        /\ c * CELL_WIDTH < rect.x + rect.width }

RectsCoverNonDefault ==
    UNION { Covered(rect_tags[g]) : g \in DOMAIN rect_tags }
        = NonDefaultColumns

RectsDoNotOverlap ==
    \A g, h \in DOMAIN rect_tags :
        g # h => Covered(rect_tags[g]) \cap Covered(rect_tags[h]) = {}

\* One rect tag per maximal run, at the first column of the run
RectsStartRuns ==
    /\ { rect_tags[g].x : g \in DOMAIN rect_tags }
          = { c * CELL_WIDTH : c \in
                { c \in NonDefaultColumns :
                    \/ c - 1 \notin NonDefaultColumns
                    \/ bg_line[c - 1].background_color
                          # bg_line[c].background_color } }
    /\ \A g, h \in DOMAIN rect_tags : g < h => rect_tags[g].x < rect_tags[h].x

\* C27: the keys of ConsecutiveWithSameAttributes describe maximal runs,
\* and the background rectangles of a line cover exactly the cells whose
\* background is not the default, do not overlap, and start at the first
\* column of each run times the cell width.
C27_BackgroundRects ==
    /\ RunsAreMaximal
    /\ (npc = "done") =>
          /\ RectsStartRuns
          /\ RectsCoverNonDefault
          /\ RectsDoNotOverlap

\* The cells of the line all hold a one-column character.
OneColumnTexts == \A c \in DOMAIN bg_line : Wcwidth(bg_line[c].text) = 1

\* What holds of every line: maximal runs, one rect per run.
C27_RunsAndStarts == RunsAreMaximal /\ ((npc = "done") => RectsStartRuns)

\* What holds of the lines of one-column characters.
C27_OneColumnLines == OneColumnTexts => C27_BackgroundRects

PixelsRestored ==
    (mpc \in {"exited", "raised"} /\ tm_fd = "tty") =>
        /\ term_size.xpixel = tm_entry.size.xpixel
        /\ term_size.ypixel = tm_entry.size.ypixel

(***************************************************************************)
(* Claims about the recorder                                               *)
(***************************************************************************)
\* Chunk k was yielded to the caller and written to output_fileno.
Captured(k) ==
    /\ \E i \in DOMAIN cap_yielded : cap_yielded[i] = k
    /\ \E i \in DOMAIN cap_output : cap_output[i] = k

\* C30: every chunk the recorded process writes to the PTY is eventually
\* yielded to the caller and written to the output descriptor, whatever
\* happens to the input descriptor.
C30_AllOutputCaptured ==
    \A k \in 1..MaxChunks : (proc_written >= k) ~> Captured(k)

\* As long as the input neither ends nor fails, every chunk is captured.
C30_CapturedWhileInputOpen ==
    [](stdin_state \notin {"eof", "error"}) => C30_AllOutputCaptured

\* What is captured is what was written, in the order written.
C30_InOrder ==
    /\ cap_yielded \o pty_out = [k \in 1..proc_written |-> k]
    /\ cap_output \o cap_data = cap_yielded

\* The generator returns only when nothing is left to read.
C30_ReturnsDrained == (ppc = "returned") => pty_out = <<>>

(***************************************************************************)
(* Claims about the time-to-offset table and the keyframes                 *)
(***************************************************************************)
\* The number of the last frame at time t, counted from 0
LastFrameAt(t) ==
    CHOOSE i \in 0..(Len(tf_frames) - 1) :
        /\ tf_frames[i + 1].time = t
        /\ \A j \in (i + 1)..(Len(tf_frames) - 1) : tf_frames[j + 1].time # t

\* The distinct times of the frames, increasing
FrameTimes == SortedRows({ tf_frames[i].time : i \in DOMAIN tf_frames })

\* total: the time of the last frame plus its duration
TotalDuration ==
    tf_frames[Len(tf_frames)].time + tf_frames[Len(tf_frames)].duration

\* The time at which keyframe k is placed when it gives none: the first
\* keyframe of the WAAPI list is at 0 and the closing one at 1.
KeyframeTime(k) ==
    IF keyframes[k].time # JNone THEN keyframes[k].time.int
    ELSE IF k = 1 THEN 0 ELSE 1000

\* C26: the table of _render_animation has one entry per distinct frame
\* time, holding the offset of the last frame at that time; the keyframes
\* are listed by increasing time, each at time/total (to three decimals)
\* with 0 <= time <= total, total being the last frame's time + duration,
\* and a closing keyframe at 100% repeats the last offset.
C26_TimingsAndKeyframes ==
    (ipc = "done") =>
        /\ DOMAIN timings = { tf_frames[i].time : i \in DOMAIN tf_frames }
        /\ \A t \in DOMAIN timings :
              timings[t] = -FrameOffset(tf_height, LastFrameAt(t))
        /\ keyframes # <<>> =>
              LET scale == IF tf_type = "css" THEN 100 ELSE 1
              IN /\ animation_duration = JInt(TotalDuration)
                 /\ Len(keyframes) = Len(FrameTimes) + 1
                 /\ \A k \in 1..Len(FrameTimes) :
                       /\ 0 <= FrameTimes[k]
                       /\ FrameTimes[k] <= TotalDuration
                       /\ 2 * KeyframeTime(k) * TotalDuration
                             \in (2 * 1000 * scale * FrameTimes[k]
                                     - TotalDuration)
                                 ..(2 * 1000 * scale * FrameTimes[k]
                                     + TotalDuration)
                       /\ keyframes[k].offset = timings[FrameTimes[k]]
                 /\ keyframes[Len(keyframes)].offset
                       = keyframes[Len(keyframes) - 1].offset
                 /\ tf_type = "css" =>
                       keyframes[Len(keyframes)].time = JInt(100 * 1000)
                 /\ tf_type = "waapi" =>
                       keyframes[Len(keyframes)].time = JNone

\* C26 witness: three frames, the second of duration 0, were rendered with
\* a css template: the table has two entries and three keyframes are
\* listed.
C26_Witness ==
    /\ ipc = "done"
    /\ tf_type = "css"
    /\ Len(tf_frames) = 3
    /\ tf_frames[2].duration = 0
    /\ tf_frames[2].time = tf_frames[3].time
    /\ tf_frames[1].duration > 0
    /\ Len(keyframes) = 3
    /\ timings[tf_frames[2].time] = -FrameOffset(tf_height, 2)

====
